---- MODULE Spec2Model ----
(***************************************************************************)
(* Model of the time-series alignment and correlation core of              *)
(* prometheus-energy-analysis: src/src/sync_metrics.py,                    *)
(* src/src/correlations.py, src/src/rolling_stats.py and                   *)
(* src/src/load_prometheus.py.                                             *)
(*                                                                         *)
(* Instants are integers counting ticks of half a second.  A float is a    *)
(* record [k, n, d]: k = "num" is the rational n/d in lowest terms with    *)
(* d > 0, k = "nan" is NaN, k = "inf" is the infinity of the sign of n,    *)
(* k = "bad" is a text of a file that is no number.  A data frame is a     *)
(* sequence of rows.  An optional argument is a set: {} is None and {x}    *)
(* is the value x.  A string whose characters the code inspects is a       *)
(* sequence of one-character strings.                                      *)
(***************************************************************************)
EXTENDS Integers, Sequences, FiniteSets, TLC

VARIABLES df1, df2, metric_name, freq, tol, called,
          cum_out, rate_out, freq_out, aligned, corr_in, use_norm, corr_out,
          max_lag, lag_out, ratecorr_out, window, min_periods, roll_out,
          norm_out, file_in, aggregate, machine, load_out, finite_check

\* the arguments and results of lag_correlation, rate_correlation and
\* rolling_corr
engineVars == <<max_lag, lag_out, ratecorr_out, window, min_periods, roll_out>>

\* the arguments and results of normalize_series and load_prometheus_file,
\* and finite_check: whether the installed scipy computes the norms of
\* pearsonr with scipy.linalg.norm, which rejects an array holding an
\* infinity or a NaN (scipy 1.3 to 1.13), or with a norm that returns NaN
ioVars == <<norm_out, file_in, aggregate, machine, load_out, finite_check>>

vars == <<df1, df2, metric_name, freq, tol, called,
          cum_out, rate_out, freq_out, aligned, corr_in, use_norm, corr_out,
          max_lag, lag_out, ratecorr_out, window, min_periods, roll_out,
          norm_out, file_in, aggregate, machine, load_out, finite_check>>

(***************************************************************************)
(* Floats                                                                  *)
(***************************************************************************)
Abs(x) == IF x < 0 THEN -x ELSE x

RECURSIVE GCD(_, _)
GCD(a, b) == IF b = 0 THEN a ELSE GCD(b, a % b)

NaN == [k |-> "nan", n |-> 0, d |-> 1]

PosInf == [k |-> "inf", n |-> 1, d |-> 1]

\* the rational n/d (d # 0) in lowest terms
Rat(n, d) ==
    LET s == IF d < 0 THEN -1 ELSE 1
        g == GCD(Abs(n), Abs(d))
    IN  [k |-> "num", n |-> (s * n) \div g, d |-> (s * d) \div g]

Num(v) == Rat(v, 1)

IsNaN(x) == x.k = "nan"

NotNa(x) == x.k # "nan"

NegInf == [k |-> "inf", n |-> -1, d |-> 1]

\* a - b on floats; NaN propagates, an infinity absorbs a finite number and
\* the difference of two infinities of the same sign is NaN
FSub(a, b) ==
    IF a.k = "num" /\ b.k = "num"
    THEN Rat(a.n * b.d - b.n * a.d, a.d * b.d)
    ELSE IF a.k = "nan" \/ b.k = "nan" THEN NaN
    ELSE IF b.k = "num" THEN a
    ELSE IF a.k = "num" THEN (IF b.n > 0 THEN NegInf ELSE PosInf)
    ELSE IF a.n = b.n THEN NaN
    ELSE a

\* x < 0 as a float comparison: False for NaN, True for -infinity
FNeg(x) == x.k \in {"num", "inf"} /\ x.n < 0

\* x >= 0 as a float comparison: False for NaN and for -infinity
FGe0(x) == x.k \in {"num", "inf"} /\ x.n >= 0

(***************************************************************************)
(* Sequences                                                               *)
(***************************************************************************)
\* insert row r after every row whose instant is <= r's (stable)
RECURSIVE InsertByTime(_, _)
InsertByTime(s, r) ==
    IF s = <<>> THEN <<r>>
    ELSE IF s[Len(s)].datetime <= r.datetime THEN Append(s, r)
    ELSE Append(InsertByTime(SubSeq(s, 1, Len(s) - 1), r), s[Len(s)])

\* df.sort_values("datetime"): rows in ascending time, equal instants keeping
\* their input order
\* the rows of t inserted into the sorted s one after another, in their
\* order in t
RECURSIVE InsertAll(_, _)
InsertAll(s, t) ==
    IF Len(s) + Len(t) = Len(s) THEN s
    ELSE IF Len(t) = 1 THEN InsertByTime(s, t[1])
    ELSE LET mid == Len(t) \div 2
         IN  InsertAll(InsertAll(s, SubSeq(t, 1, mid)), SubSeq(t, mid + 1, Len(t)))

SortValues(s) == InsertAll(<<>>, s)

(***************************************************************************)
(* Metric names                                                            *)
(***************************************************************************)
UpperLetters ==
    <<"A", "B", "C", "D", "E", "F", "G", "H", "I", "J", "K", "L", "M",
      "N", "O", "P", "Q", "R", "S", "T", "U", "V", "W", "X", "Y", "Z">>

LowerLetters ==
    <<"a", "b", "c", "d", "e", "f", "g", "h", "i", "j", "k", "l", "m",
      "n", "o", "p", "q", "r", "s", "t", "u", "v", "w", "x", "y", "z">>

\* the lower-case letter of a capital, any other character as it is
LowerChar(c) ==
    IF \E i \in 1..Len(UpperLetters) : UpperLetters[i] = c
    THEN LowerLetters[CHOOSE i \in 1..Len(UpperLetters) : UpperLetters[i] = c]
    ELSE c

\* str.lower()
Lower(s) == [i \in 1..Len(s) |-> LowerChar(s[i])]

\* sub in s
Contains(s, sub) ==
    \E i \in 0..(Len(s) - Len(sub)) : SubSeq(s, i + 1, i + Len(sub)) = sub

\* s.endswith(sub)
EndsWith(s, sub) ==
    Len(s) >= Len(sub) /\ SubSeq(s, Len(s) - Len(sub) + 1, Len(s)) = sub

MarkerCumulative == <<"c", "u", "m", "u", "l", "a", "t", "i", "v", "e">>

MarkerTotal == <<"_", "t", "o", "t", "a", "l">>

(***************************************************************************)
(* sync_metrics._is_cumulative                                             *)
(***************************************************************************)
TicksPerSec == 2

CumulativePct == 95

\* Series.diff(): element 1 is NaN, element i is s[i] - s[i-1]
Diff(vals) ==
    [i \in 1..Len(vals) |-> IF i = 1 THEN NaN ELSE FSub(vals[i], vals[i - 1])]

Values(df) == [i \in 1..Len(df) |-> df[i].value]

\* (diffs >= 0).sum()
NonDecreasing(diffs) == Cardinality({i \in 1..Len(diffs) : FGe0(diffs[i])})

HasMarker(name) ==
    LET name_lower == Lower(name)
    IN  \/ Contains(name_lower, MarkerCumulative)
        \/ Contains(name_lower, MarkerTotal)
        \/ EndsWith(name_lower, MarkerTotal)

IsCumulativeLengthFirst(df, name) ==
    IF Len(df) < 2 THEN FALSE
    ELSE IF HasMarker(name) THEN TRUE
    ELSE LET diffs == Diff(Values(SortValues(df)))
         IN  NonDecreasing(diffs) * 100 > CumulativePct * Len(diffs)

IsCumulativeShortDefaultsTrue(df, name) ==
    IF HasMarker(name) THEN TRUE
    ELSE IF Len(df) < 2 THEN TRUE
    ELSE LET diffs == Diff(Values(SortValues(df)))
         IN  NonDecreasing(diffs) * 100 > CumulativePct * Len(diffs)

\* non_decreasing / len(diffs) > 0.95, len(diffs) being the number of rows
IsCumulative(df, name) ==
    IF HasMarker(name) THEN TRUE
    ELSE IF Len(df) < 2 THEN FALSE
    ELSE LET diffs == Diff(Values(SortValues(df)))
         IN  NonDecreasing(diffs) * 100 > CumulativePct * Len(diffs)

(***************************************************************************)
(* sync_metrics.to_rate                                                    *)
(***************************************************************************)
\* value_diff / dt_diff with dt_diff in seconds; a zero dt_diff divides by
\* zero as IEEE floats do
RateOf(value_diff, dt_ticks) ==
    LET q == IF IsNaN(value_diff) THEN NaN
             ELSE IF dt_ticks = 0
                  THEN (IF value_diff.n = 0 THEN NaN
                        ELSE IF value_diff.n > 0 THEN PosInf
                        ELSE NegInf)
             ELSE IF value_diff.k = "inf" THEN value_diff
             ELSE Rat(value_diff.n * TicksPerSec, value_diff.d * dt_ticks)
    IN  IF FNeg(q) THEN Num(0) ELSE q

RateRows(sorted) ==
    LET value_diff == Diff(Values(sorted))
    IN  [i \in 1..Len(sorted) |->
            [datetime |-> sorted[i].datetime,
             value |-> IF i = 1 THEN NaN
                       ELSE RateOf(value_diff[i],
                                   sorted[i].datetime - sorted[i - 1].datetime)]]

RowHasValue(r) == NotNa(r.value)

ToRateNoClamp(df, name) ==
    IF Len(df) < 2 THEN df
    ELSE IF ~IsCumulative(df, name) THEN df
    ELSE LET sorted == SortValues(df)
             value_diff == Diff(Values(sorted))
         IN  SelectSeq([i \in 1..Len(sorted) |->
                 [datetime |-> sorted[i].datetime,
                  value |-> IF i = 1 \/ sorted[i].datetime = sorted[i - 1].datetime
                            THEN NaN
                            ELSE Rat(value_diff[i].n * TicksPerSec,
                                     value_diff[i].d *
                                       (sorted[i].datetime - sorted[i - 1].datetime))]],
                 RowHasValue)

ToRateSortsFirst(df, name) ==
    IF Len(df) < 2 THEN df
    ELSE IF ~IsCumulative(df, name) THEN SortValues(df)
    ELSE SelectSeq(RateRows(SortValues(df)), RowHasValue)

ToRate(df, name) ==
    IF Len(df) < 2 THEN df
    ELSE IF ~IsCumulative(df, name) THEN df
    ELSE SelectSeq(RateRows(SortValues(df)), RowHasValue)

(***************************************************************************)
(* Inputs of the rate normalizer                                           *)
(***************************************************************************)
MaxRateLen == 3

MaxRateTick == 2

MaxRateVal == 2

RateSamples ==
    {[datetime |-> t, value |-> Num(v)] : t \in 0..MaxRateTick, v \in 0..MaxRateVal}

MetricNames ==
    { <<>>,
      <<"c", "p", "u">>,
      <<"x", "_", "t", "o", "t", "a", "l">>,
      <<"X", "_", "T", "O", "T", "A", "L", "_", "x">>,
      <<"C", "u", "m", "u", "l", "a", "t", "i", "v", "e">>,
      <<"C", "U", "M", "U", "L", "A", "T", "I", "V", "E">> }

InitBuild(fc) ==
    /\ finite_check = fc
    /\ df1 = <<>>
    /\ df2 = <<>>
    /\ freq = {}
    /\ tol = {}
    /\ called = "none"
    /\ cum_out = FALSE
    /\ rate_out = <<>>
    /\ freq_out = ""
    /\ aligned = <<>>
    /\ corr_in = <<>>
    /\ use_norm = FALSE
    /\ corr_out = [kind |-> "none", n |-> 0, sign |-> 0, sq |-> NaN]
    /\ max_lag = {}
    /\ lag_out = [kind |-> "none", best_lag |-> 0, sign |-> 0, sq |-> NaN,
                  all_lags |-> <<>>]
    /\ ratecorr_out = [kind |-> "none", n |-> 0, sign |-> 0, sq |-> NaN]
    /\ window = 0
    /\ min_periods = {}
    /\ roll_out = [kind |-> "none", rows |-> <<>>]
    /\ norm_out = [kind |-> "none", vals |-> <<>>]
    /\ file_in = [format |-> "json", entries |-> <<>>]
    /\ aggregate = TRUE
    /\ machine = {}
    /\ load_out = [kind |-> "none", rows |-> <<>>]

\* no call made yet; the series of the specifications that start here hold
\* finite numbers and NaN only, for which every scipy computes the same
InitCommon == InitBuild(FALSE)

InitRate ==
    /\ InitCommon
    /\ metric_name \in MetricNames

RateAddSample ==
    /\ called = "none"
    /\ Len(df1) < MaxRateLen
    /\ \E r \in RateSamples : df1' = Append(df1, r)
    /\ UNCHANGED <<ioVars, df2, metric_name, freq, tol, called, cum_out, rate_out,
                   freq_out, aligned, corr_in, use_norm, corr_out, engineVars>>

CallIsCumulative ==
    /\ called = "none"
    /\ cum_out' = IsCumulative(df1, metric_name)
    /\ called' = "_is_cumulative"
    /\ UNCHANGED <<ioVars, df1, df2, metric_name, freq, tol, rate_out,
                   freq_out, aligned, corr_in, use_norm, corr_out, engineVars>>

CallToRate ==
    /\ called = "none"
    /\ rate_out' = ToRate(df1, metric_name)
    /\ called' = "to_rate"
    /\ UNCHANGED <<ioVars, df1, df2, metric_name, freq, tol, cum_out,
                   freq_out, aligned, corr_in, use_norm, corr_out, engineVars>>

NextRate == RateAddSample \/ CallIsCumulative \/ CallToRate

SpecRate == InitRate /\ [][NextRate]_vars

(***************************************************************************)
(* sync_metrics.infer_freq                                                 *)
(***************************************************************************)
\* insert x into an ascending sequence of integers
RECURSIVE InsertInt(_, _)
InsertInt(s, x) ==
    IF s = <<>> THEN <<x>>
    ELSE IF s[Len(s)] <= x THEN Append(s, x)
    ELSE Append(InsertInt(SubSeq(s, 1, Len(s) - 1), x), s[Len(s)])

RECURSIVE SortInts(_)
SortInts(s) ==
    IF s = <<>> THEN <<>>
    ELSE InsertInt(SortInts(SubSeq(s, 1, Len(s) - 1)), s[Len(s)])

\* df["datetime"].diff() without its leading NaT: the gaps between
\* successive rows, in the order the rows are given
Gaps(df) == [i \in 1..(Len(df) - 1) |-> df[i + 1].datetime - df[i].datetime]

\* twice the median of a non-empty sequence of integers (the median of an
\* even number of elements is the mean of the middle two)
Median2(xs) ==
    LET srt == SortInts(xs)
        n == Len(srt)
    IN  IF n % 2 = 1 THEN 2 * srt[(n + 1) \div 2]
        ELSE srt[n \div 2] + srt[n \div 2 + 1]

\* df["datetime"].diff().median() as twice its number of ticks: {} is NaT
MedianGap2(df) == IF Len(df) < 2 THEN {} ELSE {Median2(Gaps(df))}

\* Python's min(a, b) on floats: b if b < a else a, where a comparison with
\* NaN ({}) is False
PyMin(a, b) ==
    IF a # {} /\ b # {} /\ (\E x \in a, y \in b : y < x) THEN b ELSE a

\* freq_sec < limit, freq_sec being g2 / (2 * TicksPerSec) seconds or NaN
SecLess(g2, limit) == \E x \in g2 : x < 2 * TicksPerSec * limit

Quantize(g2) ==
    IF SecLess(g2, 5) THEN "5s"
    ELSE IF SecLess(g2, 30) THEN "30s"
    ELSE IF SecLess(g2, 60) THEN "1min"
    ELSE "1min"

InferFreqNoEmptyGuard(a, b) == Quantize(PyMin(MedianGap2(a), MedianGap2(b)))

InferFreq(a, b) ==
    IF Len(a) = 0 \/ Len(b) = 0 THEN "1s"
    ELSE Quantize(PyMin(MedianGap2(a), MedianGap2(b)))

(***************************************************************************)
(* Inputs of the frequency inferencer                                      *)
(***************************************************************************)
MaxFreqLen == 3

\* instants whose gaps lie on both sides of the 5 s, 30 s and 60 s limits
FreqInstants == {sec * TicksPerSec : sec \in {0, 1, 5, 30, 90}}

FreqSamples == {[datetime |-> t, value |-> Num(1)] : t \in FreqInstants}

InitFreq ==
    /\ InitCommon
    /\ metric_name = <<>>

FreqAddSample1 ==
    /\ called = "none"
    /\ Len(df1) < MaxFreqLen
    /\ \E r \in FreqSamples : df1' = Append(df1, r)
    /\ UNCHANGED <<ioVars, df2, metric_name, freq, tol, called, cum_out, rate_out,
                   freq_out, aligned, corr_in, use_norm, corr_out, engineVars>>

FreqAddSample2 ==
    /\ called = "none"
    /\ Len(df2) < MaxFreqLen
    /\ \E r \in FreqSamples : df2' = Append(df2, r)
    /\ UNCHANGED <<ioVars, df1, metric_name, freq, tol, called, cum_out, rate_out,
                   freq_out, aligned, corr_in, use_norm, corr_out, engineVars>>

CallInferFreq ==
    /\ called = "none"
    /\ freq_out' = InferFreq(df1, df2)
    /\ called' = "infer_freq"
    /\ UNCHANGED <<ioVars, df1, df2, metric_name, freq, tol, cum_out, rate_out,
                   aligned, corr_in, use_norm, corr_out, engineVars>>

NextFreq == FreqAddSample1 \/ FreqAddSample2 \/ CallInferFreq

SpecFreq == InitFreq /\ [][NextFreq]_vars

(***************************************************************************)
(* sync_metrics.align_metrics                                              *)
(***************************************************************************)
\* a + b on floats; NaN propagates, an infinity absorbs a finite number and
\* the sum of two infinities of opposite signs is NaN
FAdd(a, b) ==
    IF a.k = "num" /\ b.k = "num"
    THEN Rat(a.n * b.d + b.n * a.d, a.d * b.d)
    ELSE IF a.k = "nan" \/ b.k = "nan" THEN NaN
    ELSE IF b.k = "num" THEN a
    ELSE IF a.k = "num" THEN b
    ELSE IF a.n = b.n THEN a
    ELSE NaN

\* the sum of the elements lo..hi, by halves
RECURSIVE FSumTo(_, _, _)
FSumTo(xs, lo, hi) ==
    IF lo > hi THEN Num(0)
    ELSE IF lo = hi THEN xs[lo]
    ELSE LET mid == (lo + hi) \div 2
         IN  FAdd(FSumTo(xs, lo, mid), FSumTo(xs, mid + 1, hi))

FSum(xs) == FSumTo(xs, 1, Len(xs))

\* Series.mean(): the mean of the values that are not NaN, NaN if there are
\* none
Mean(xs) ==
    LET present == SelectSeq(xs, NotNa)
        total == FSum(present)
    IN  IF present = <<>> THEN NaN
        ELSE IF total.k = "num" THEN Rat(total.n, total.d * Len(present))
        ELSE total

\* the length in ticks of a frequency string, as pd.Timedelta and resample
\* read it
FreqTicks(f) ==
    CASE f = "1s" -> TicksPerSec
      [] f = "5s" -> 5 * TicksPerSec
      [] f = "7s" -> 7 * TicksPerSec
      [] f = "30s" -> 30 * TicksPerSec
      [] f = "1min" -> 60 * TicksPerSec

\* ticks in a day
Day == 86400 * TicksPerSec

MinTime(df) == CHOOSE t \in {df[i].datetime : i \in 1..Len(df)} :
                   \A i \in 1..Len(df) : t <= df[i].datetime

MaxTime(df) == CHOOSE t \in {df[i].datetime : i \in 1..Len(df)} :
                   \A i \in 1..Len(df) : t >= df[i].datetime

\* the left edge of the bin of instant t: bins of `step` ticks, closed on the
\* left, counted from the midnight that precedes the frame's first instant
BinLabel(t, first, step) ==
    LET origin == (first \div Day) * Day
    IN  t - ((t - origin) % step)

RowsInBin(df, label, step) ==
    SelectSeq(df, LAMBDA r : label <= r.datetime /\ r.datetime < label + step)

ResampleNoGrouping(df, step) ==
    [i \in 1..Len(df) |->
        [datetime |-> BinLabel(SortValues(df)[i].datetime, MinTime(df), step),
         value |-> SortValues(df)[i].value]]

\* df.set_index("datetime").resample(freq).mean().reset_index(): one row per
\* bin from the bin of the first instant to the bin of the last, in ascending
\* time, holding the mean of the bin's samples, NaN for a bin without samples
Resample(df, step) ==
    LET lo == BinLabel(MinTime(df), MinTime(df), step)
        hi == BinLabel(MaxTime(df), MinTime(df), step)
    IN  [i \in 1..((hi - lo) \div step + 1) |->
            [datetime |-> lo + (i - 1) * step,
             value |-> Mean(Values(RowsInBin(df, lo + (i - 1) * step, step)))]]

\* the backward match of instant t in the right frame: the index of the last
\* row at or before t, 0 if there is none or it is further than tolerance
BackwardIndex(right, t, tolerance) ==
    LET cand == {j \in 1..Len(right) : right[j].datetime <= t}
        j == CHOOSE x \in cand : \A y \in cand : y <= x
    IN  IF cand = {} THEN 0
        ELSE IF t - right[j].datetime > tolerance THEN 0 ELSE j

\* the forward match: the index of the first row at or after t
ForwardIndex(right, t, tolerance) ==
    LET cand == {j \in 1..Len(right) : right[j].datetime >= t}
        j == CHOOSE x \in cand : \A y \in cand : x <= y
    IN  IF cand = {} THEN 0
        ELSE IF right[j].datetime - t > tolerance THEN 0 ELSE j

\* direction="nearest": the backward match unless the forward one is
\* strictly nearer
NearestIndex(right, t, tolerance) ==
    LET b == BackwardIndex(right, t, tolerance)
        f == ForwardIndex(right, t, tolerance)
    IN  IF b # 0 /\ f # 0
        THEN (IF t - right[b].datetime <= right[f].datetime - t THEN b ELSE f)
        ELSE IF b # 0 THEN b ELSE f

MergeAsofBackward(left, right, tolerance) ==
    [i \in 1..Len(left) |->
        LET j == BackwardIndex(right, left[i].datetime, tolerance)
        IN  [datetime |-> left[i].datetime,
             v1 |-> left[i].value,
             v2 |-> IF j = 0 THEN NaN ELSE right[j].value]]

\* a variant of the join that looks for the nearest right row holding a value
MergeAsofSkipsEmpty(left, right, tolerance) ==
    LET defined == SelectSeq(right, LAMBDA r : NotNa(r.value))
    IN  [i \in 1..Len(left) |->
            LET j == NearestIndex(defined, left[i].datetime, tolerance)
            IN  [datetime |-> left[i].datetime,
                 v1 |-> left[i].value,
                 v2 |-> IF j = 0 THEN NaN ELSE defined[j].value]]

\* pd.merge_asof(left, right, on="datetime", tolerance, direction="nearest")
\* on frames sorted by time: one row per left row
MergeAsof(left, right, tolerance) ==
    [i \in 1..Len(left) |->
        LET j == NearestIndex(right, left[i].datetime, tolerance)
        IN  [datetime |-> left[i].datetime,
             v1 |-> left[i].value,
             v2 |-> IF j = 0 THEN NaN ELSE right[j].value]]

\* the cadence align_metrics resamples to
Cadence(a, b, f) == IF f = {} THEN InferFreq(a, b) ELSE CHOOSE x \in f : TRUE

\* the tolerance of the join, in ticks
Tolerance(a, b, f, tl) ==
    IF tl = {} THEN FreqTicks(Cadence(a, b, f)) * 2 ELSE CHOOSE x \in tl : TRUE

BothPresent(r) == NotNa(r.v1) /\ NotNa(r.v2)

AlignKeepsUnmatched(a, b, f, tl) ==
    IF Len(a) = 0 \/ Len(b) = 0 THEN <<>>
    ELSE LET step == FreqTicks(Cadence(a, b, f))
         IN  MergeAsof(SortValues(Resample(a, step)),
                       SortValues(Resample(b, step)),
                       Tolerance(a, b, f, tl))

AlignNoResample(a, b, f, tl) ==
    IF Len(a) = 0 \/ Len(b) = 0 THEN <<>>
    ELSE SelectSeq(MergeAsof(SortValues(a), SortValues(b), Tolerance(a, b, f, tl)),
                   BothPresent)

AlignMetrics(a, b, f, tl) ==
    IF Len(a) = 0 \/ Len(b) = 0 THEN <<>>
    ELSE LET step == FreqTicks(Cadence(a, b, f))
             merged == MergeAsof(SortValues(Resample(a, step)),
                                 SortValues(Resample(b, step)),
                                 Tolerance(a, b, f, tl))
         IN  SelectSeq(merged, BothPresent)

(***************************************************************************)
(* Inputs of the aligner                                                   *)
(***************************************************************************)
\* samples in both series together
MaxSamples == 3

\* instants 2.5 s apart on both sides of a midnight
AlignInstants == {Day + (k * 5 * TicksPerSec) \div 2 : k \in -2..2}

AlignSamples == {[datetime |-> t, value |-> Num(v)] : t \in AlignInstants, v \in 1..2}

\* a cadence that does not divide the day, or None
AlignFreqs == {{}, {"7s"}}

\* a tolerance of one second, or None
AlignTols == {{}, {TicksPerSec}}

InitAlign ==
    /\ InitCommon
    /\ metric_name = <<>>

AlignAddSample1 ==
    /\ called = "none"
    /\ Len(df1) + Len(df2) < MaxSamples
    /\ \E r \in AlignSamples : df1' = Append(df1, r)
    /\ UNCHANGED <<ioVars, df2, metric_name, freq, tol, called, cum_out, rate_out,
                   freq_out, aligned, corr_in, use_norm, corr_out, engineVars>>

AlignAddSample2 ==
    /\ called = "none"
    /\ Len(df1) + Len(df2) < MaxSamples
    /\ \E r \in AlignSamples : df2' = Append(df2, r)
    /\ UNCHANGED <<ioVars, df1, metric_name, freq, tol, called, cum_out, rate_out,
                   freq_out, aligned, corr_in, use_norm, corr_out, engineVars>>

CallAlignMetrics ==
    /\ called = "none"
    /\ \E f \in AlignFreqs, tl \in AlignTols :
          /\ freq' = f
          /\ tol' = tl
          /\ aligned' = AlignMetrics(df1, df2, f, tl)
    /\ called' = "align_metrics"
    /\ UNCHANGED <<ioVars, df1, df2, metric_name, cum_out, rate_out,
                   freq_out, corr_in, use_norm, corr_out, engineVars>>

NextAlign == AlignAddSample1 \/ AlignAddSample2 \/ CallAlignMetrics

SpecAlign == InitAlign /\ [][NextAlign]_vars

(***************************************************************************)
(* correlations.compute_correlations                                       *)
(***************************************************************************)
\* a * b on floats; NaN propagates, an infinity times zero is NaN and
\* times anything else the infinity of the product's sign
FMul(a, b) ==
    IF a.k = "num" /\ b.k = "num" THEN Rat(a.n * b.n, a.d * b.d)
    ELSE IF a.k = "nan" \/ b.k = "nan" THEN NaN
    ELSE IF a.n = 0 \/ b.n = 0 THEN NaN
    ELSE IF (a.n > 0) = (b.n > 0) THEN PosInf
    ELSE NegInf

V1s(df) == [i \in 1..Len(df) |-> df[i].v1]

V2s(df) == [i \in 1..Len(df) |-> df[i].v2]

Products(xs, ys) == [i \in 1..Len(xs) |-> FMul(xs[i], ys[i])]

\* n * sum(x*y) - sum(x) * sum(y): n squared times the covariance
CoMoment(xs, ys) ==
    FSub(FMul(Num(Len(xs)), FSum(Products(xs, ys))), FMul(FSum(xs), FSum(ys)))

\* (x == x[0]).all()
ConstantInput(xs) == xs[1].k # "nan" /\ \A i \in 1..Len(xs) : xs[i] = xs[1]

AllFinite(xs) == \A i \in 1..Len(xs) : xs[i].k = "num"

RECURSIVE IsPowerOfFour(_)
IsPowerOfFour(m) == m = 1 \/ (m > 1 /\ m % 4 = 0 /\ IsPowerOfFour(m \div 4))

\* Whether pearsonr computes on the finite series xs without any rounding,
\* whatever the scaling of its formula: the mean is an integer, every
\* deviation from it is -1, 0 or 1 and the norm of the deviations is a power
\* of two.  sxx is Len(xs) times the sum of the squared deviations.
ExactInDoubles(xs, sxx) ==
    LET n == Len(xs)
        total == FSum(xs)
    IN  /\ total.d = 1 /\ total.n % n = 0
        /\ \A i \in 1..n : FSub(xs[i], Num(total.n \div n)) \in {Num(-1), Num(0), Num(1)}
        /\ sxx.d = 1 /\ sxx.n % n = 0 /\ IsPowerOfFour(sxx.n \div n)

\* scipy.stats.pearsonr(x, y)[0] as its sign and its square: a ValueError
\* for fewer than 2 points, NaN when either input is constant, for two
\* points sign(x[1] - x[0]) * sign(y[1] - y[0]) before any norm is taken; for
\* a longer input holding an infinity or a NaN a ValueError or NaN, as the
\* installed scipy computes its norms.  exact tells whether the coefficient
\* is computed without rounding.
PearsonR(xs, ys) ==
    IF Len(xs) < 2 THEN [kind |-> "raise", sign |-> 0, sq |-> NaN, exact |-> TRUE]
    ELSE IF ConstantInput(xs) \/ ConstantInput(ys)
    THEN [kind |-> "value", sign |-> 0, sq |-> NaN, exact |-> TRUE]
    ELSE IF Len(xs) = 2
    THEN LET dx == FSub(xs[2], xs[1])
             dy == FSub(ys[2], ys[1])
         IN  IF IsNaN(dx) \/ IsNaN(dy)
             THEN [kind |-> "value", sign |-> 0, sq |-> NaN, exact |-> TRUE]
             ELSE [kind |-> "value",
                   sign |-> IF FNeg(dx) = FNeg(dy) THEN 1 ELSE -1,
                   sq |-> Num(1), exact |-> TRUE]
    ELSE IF ~AllFinite(xs) \/ ~AllFinite(ys)
    THEN [kind |-> IF finite_check THEN "raise" ELSE "value",
          sign |-> 0, sq |-> NaN, exact |-> TRUE]
    ELSE LET sxy == CoMoment(xs, ys)
             sxx == CoMoment(xs, xs)
             syy == CoMoment(ys, ys)
         IN  [kind |-> "value",
              sign |-> IF sxy.n > 0 THEN 1 ELSE IF sxy.n < 0 THEN -1 ELSE 0,
              sq |-> Rat(sxy.n * sxy.n * sxx.d * syy.d,
                         sxy.d * sxy.d * sxx.n * syy.n),
              exact |-> ExactInDoubles(xs, sxx) /\ ExactInDoubles(ys, syy)]

\* df[["v1", "v2"]].dropna()
DropNa(df) == SelectSeq(df, BothPresent)

\* normalize_series(pd.Series(v)).values as far as pearsonr tells it from v:
\* the z-scores are a positive affine map of a column that is not constant
\* and leave a constant column as it is, which changes no coefficient; a
\* column of a single value or holding an infinity has the standard
\* deviation NaN and becomes NaN throughout
NormalizedColumn(v, norm) ==
    IF norm /\ (Len(v) < 2 \/ ~AllFinite(v)) THEN [i \in 1..Len(v) |-> NaN]
    ELSE v

ComputeCorrelationsCountsAllRows(df, norm) ==
    LET clean == DropNa(df)
    IN  IF clean = <<>> THEN [kind |-> "None", n |-> 0, sign |-> 0, sq |-> NaN]
        ELSE LET pear == PearsonR(NormalizedColumn(V1s(clean), norm),
                                  NormalizedColumn(V2s(clean), norm))
             IN  IF pear.kind = "raise"
                 THEN [kind |-> "raise", n |-> 0, sign |-> 0, sq |-> NaN]
                 ELSE [kind |-> "result", n |-> Len(df),
                       sign |-> pear.sign, sq |-> pear.sq]

\* The outcome of compute_correlations: None, a ValueError raised by
\* pearsonr, or the result with its n and its Pearson coefficient (as sign
\* and square).  The p-values and the Spearman coefficient are not
\* represented.
ComputeCorrelations(df, norm) ==
    LET clean == DropNa(df)
    IN  IF clean = <<>> THEN [kind |-> "None", n |-> 0, sign |-> 0, sq |-> NaN]
        ELSE LET pear == PearsonR(NormalizedColumn(V1s(clean), norm),
                                  NormalizedColumn(V2s(clean), norm))
             IN  IF pear.kind = "raise"
                 THEN [kind |-> "raise", n |-> 0, sign |-> 0, sq |-> NaN]
                 ELSE [kind |-> "result", n |-> Len(clean),
                       sign |-> pear.sign, sq |-> pear.sq]

(***************************************************************************)
(* Inputs of the correlation engine                                        *)
(***************************************************************************)
MaxCorrLen == 3

MaxCorrVal == 2

\* a value of an aligned column: a number or NaN
CorrValues == {NaN} \cup {Num(v) : v \in 1..MaxCorrVal}

InitCorr ==
    /\ InitCommon
    /\ metric_name = <<>>

\* the next row of the aligned series, one cadence of 5 s after the last
CorrAddRow ==
    /\ called = "none"
    /\ Len(corr_in) < MaxCorrLen
    /\ \E a \in CorrValues, b \in CorrValues :
          corr_in' = Append(corr_in,
                            [datetime |-> Day + Len(corr_in) * FreqTicks("5s"),
                             v1 |-> a, v2 |-> b])
    /\ UNCHANGED <<ioVars, df1, df2, metric_name, freq, tol, called, cum_out, rate_out,
                   freq_out, aligned, use_norm, corr_out, engineVars>>

CallComputeCorrelations ==
    /\ called = "none"
    /\ \E norm \in BOOLEAN :
          /\ use_norm' = norm
          /\ corr_out' = ComputeCorrelations(corr_in, norm)
    /\ called' = "compute_correlations"
    /\ UNCHANGED <<ioVars, df1, df2, metric_name, freq, tol, cum_out, rate_out,
                   freq_out, aligned, corr_in, engineVars>>

NextCorr == CorrAddRow \/ CallComputeCorrelations

SpecCorr == InitCorr /\ [][NextCorr]_vars

(***************************************************************************)
(* correlations.lag_correlation                                            *)
(***************************************************************************)
MinOverlap == 100

DefaultMaxLag == 10

\* n1/d1 < n2/d2 for fractions that are not negative, compared by their
\* continued fractions
RECURSIVE FracLess(_, _, _, _)
FracLess(n1, d1, n2, d2) ==
    LET q1 == n1 \div d1
        q2 == n2 \div d2
        r1 == n1 % d1
        r2 == n2 % d2
    IN  IF q1 # q2 THEN q1 < q2
        ELSE IF r2 = 0 THEN FALSE
        ELSE IF r1 = 0 THEN TRUE
        ELSE FracLess(d2, r2, d1, r1)

\* abs(a) < abs(b) for two correlation coefficients that are not NaN, each
\* given by the square of its value
AbsLess(a, b) == FracLess(a.sq.n, a.sq.d, b.sq.n, b.sq.d)

\* v2 shifted by lag steps: lag > 0 puts lag NaN in front and drops the last
\* lag values, lag < 0 drops the first -lag values and puts -lag NaN behind
ShiftedV2(v2, lag) ==
    [i \in 1..Len(v2) |->
        IF i - lag >= 1 /\ i - lag <= Len(v2) THEN v2[i - lag] ELSE NaN]

PairPresent(pr) == NotNa(pr.a) /\ NotNa(pr.b)

\* a variant of LagRow that compares the number of rows, not the number of
\* valid pairs, with the minimum overlap
LagRowCountsAllRows(v1, v2, lag) ==
    LET shifted_v2 == ShiftedV2(v2, lag)
        valid == SelectSeq([i \in 1..Len(v1) |-> [a |-> v1[i], b |-> shifted_v2[i]]],
                           PairPresent)
        pear == PearsonR([i \in 1..Len(valid) |-> valid[i].a],
                         [i \in 1..Len(valid) |-> valid[i].b])
    IN  IF Len(v1) < MinOverlap THEN <<>>
        ELSE <<[lag |-> lag, kind |-> pear.kind, sign |-> pear.sign,
                sq |-> pear.sq, exact |-> pear.exact]>>

\* the rows that one lag adds to the table: none when fewer than 100
\* positions have both values; kind "raise" marks a lag at which pearsonr
\* raises
LagRow(v1, v2, lag) ==
    LET shifted_v2 == ShiftedV2(v2, lag)
        valid == SelectSeq([i \in 1..Len(v1) |-> [a |-> v1[i], b |-> shifted_v2[i]]],
                           PairPresent)
        pear == PearsonR([i \in 1..Len(valid) |-> valid[i].a],
                         [i \in 1..Len(valid) |-> valid[i].b])
    IN  IF Len(valid) < MinOverlap THEN <<>>
        ELSE <<[lag |-> lag, kind |-> pear.kind, sign |-> pear.sign,
                sq |-> pear.sq, exact |-> pear.exact]>>

\* the table of the lags from lo to hi, in the order of the loop
RECURSIVE LagRows(_, _, _, _)
LagRows(v1, v2, lo, hi) ==
    IF lo > hi THEN <<>>
    ELSE LagRows(v1, v2, lo, hi - 1) \o LagRow(v1, v2, hi)

\* lags_df["corr"].abs().idxmax(): the first row whose absolute correlation,
\* a double, is the largest, rows with a NaN correlation being skipped.
\* Coefficients that are equal as real numbers are equal doubles when they
\* are computed without rounding, and the first of them is the row; otherwise
\* the rounding of the installed scipy decides which of them is the largest,
\* and each of them can be the row.  The result is the set of the rows that
\* idxmax can return, empty if every coefficient is NaN.
IdxMaxAbs(rows) ==
    LET ok == {i \in 1..Len(rows) : NotNa(rows[i].sq)}
        best == {i \in ok : \A j \in ok : ~AbsLess(rows[i], rows[j])}
    IN  IF \A i \in best : rows[i].exact
        THEN {i \in best : \A j \in best : i <= j}
        ELSE best

LagNone == [kind |-> "None", best_lag |-> 0, sign |-> 0, sq |-> NaN, all_lags |-> <<>>]

\* The outcomes of lag_correlation(df, max_lag): None, the result with the
\* best lag, its coefficient (as sign and square) and the table, the error
\* that pearsonr raises at a lag (the table then holds the lags before it),
\* or the error of looking up the best row when every coefficient is NaN.  More
\* than one result is possible when idxmax depends on rounding.  The
\* p-values are not represented.
LagCorrelation(df, ml) ==
    LET clean == DropNa(df)
    IN  IF clean = <<>> \/ Len(clean) < ml * 2 THEN {LagNone}
        ELSE LET sorted == SortValues(clean)
                 results == LagRows(V1s(sorted), V2s(sorted), -ml, ml)
                 best == IdxMaxAbs(results)
                 raised == {i \in 1..Len(results) : results[i].kind = "raise"}
             IN  IF raised # {}
                 THEN {[kind |-> "raise", best_lag |-> 0, sign |-> 0, sq |-> NaN,
                        all_lags |-> SubSeq(results, 1,
                                            (CHOOSE i \in raised :
                                                 \A j \in raised : i <= j) - 1)]}
                 ELSE IF results = <<>> THEN {LagNone}
                 ELSE IF best = {}
                      THEN {[kind |-> "raise", best_lag |-> 0, sign |-> 0, sq |-> NaN,
                             all_lags |-> results]}
                 ELSE {[kind |-> "result", best_lag |-> results[b].lag,
                        sign |-> results[b].sign, sq |-> results[b].sq,
                        all_lags |-> results] : b \in best}

(***************************************************************************)
(* Inputs of the lag sweep: long aligned series made from a short seed      *)
(***************************************************************************)
MaxSeedLen == 2

MaxDelay == 2

MaxExtraRows == 6

\* the seeds: the sequences of 0 and 1 of length 1..MaxSeedLen
Seeds == UNION {[1..len -> {0, 1}] : len \in 1..MaxSeedLen}

\* The value at step i (from 0) of the signal of a seed: the seed repeated
\* for ever ("periodic"), or the seed once, in the middle of zeros ("pulse").
SignalAt(seed, mode, i) ==
    IF mode = "periodic" THEN seed[(i % Len(seed)) + 1]
    ELSE IF i >= MinOverlap \div 2 /\ i < MinOverlap \div 2 + Len(seed)
         THEN seed[i - MinOverlap \div 2 + 1]
         ELSE 0

\* a sparse signal of four unit pulses of alternating sign, further apart
\* than any lag
SparseAt(i) ==
    IF i \in {20, 60} THEN 1 ELSE IF i \in {40, 80} THEN -1 ELSE 0

\* eight more unit pulses, away from the pulses of SparseAt
ExtraAt(i) ==
    IF i \in {10, 12, 86, 88} THEN 1 ELSE IF i \in {11, 13, 87, 89} THEN -1 ELSE 0

\* n rows one cadence of 5 s apart and row `hole` (if any) without its v2.
\* In the modes "periodic" and "pulse" v1 is the signal of the seed and v2 is
\* that signal d steps later; in the mode "echo" v1 is the sparse signal and
\* v2 is v1 plus its echo d steps later plus the extra pulses.
LongSeries(n, seed, mode, d, hole) ==
    [i \in 1..n |->
        [datetime |-> Day + (i - 1) * FreqTicks("5s"),
         v1 |-> IF mode = "echo" THEN Num(SparseAt(i - 1))
                ELSE Num(SignalAt(seed, mode, i - 1)),
         v2 |-> IF i = hole THEN NaN
                ELSE IF mode = "echo"
                     THEN Num(SparseAt(i - 1) + SparseAt(i - 1 - d) + ExtraAt(i - 1))
                     ELSE Num(SignalAt(seed, mode, i - 1 - d))]]

LagModes == {"periodic", "pulse", "echo"}

\* lengths around the minimum overlap, and one at which the default sweep
\* evaluates every lag and a wider sweep would evaluate more
LagLens == (MinOverlap - 2)..(MinOverlap + MaxExtraRows)
               \cup {MinOverlap + DefaultMaxLag + 1}

\* max_lag: not passed, 2 or 5
LagArgs == {{}, {2}, {5}, {60}}

\* the value of the parameter max_lag, 10 when it is not passed
MaxLagOf(ml) == IF ml = {} THEN DefaultMaxLag ELSE CHOOSE m \in ml : TRUE

InitLag ==
    /\ InitCommon
    /\ metric_name = <<>>

LagChooseSeries ==
    /\ called = "none"
    /\ corr_in = <<>>
    /\ \E n \in LagLens, seed \in Seeds, mode \in LagModes,
          d \in (-MaxDelay)..MaxDelay, hole \in {0, 3} :
          corr_in' = LongSeries(n, seed, mode, d, hole)
    /\ UNCHANGED <<ioVars, df1, df2, metric_name, freq, tol, called, cum_out, rate_out,
                   freq_out, aligned, use_norm, corr_out, engineVars>>

CallLagCorrelation ==
    /\ called = "none"
    /\ \E ml \in LagArgs :
          /\ max_lag' = ml
          /\ lag_out' \in LagCorrelation(corr_in, MaxLagOf(ml))
    /\ called' = "lag_correlation"
    /\ UNCHANGED <<ioVars, df1, df2, metric_name, freq, tol, cum_out, rate_out,
                   freq_out, aligned, corr_in, use_norm, corr_out,
                   ratecorr_out, window, min_periods, roll_out>>

NextLag == LagChooseSeries \/ CallLagCorrelation

SpecLag == InitLag /\ [][NextLag]_vars

(***************************************************************************)
(* rolling_stats.rolling_corr                                              *)
(***************************************************************************)
DefaultMinPeriods == 3

PyMaxInt(a, b) == IF a >= b THEN a ELSE b

MinPeriodsIgnoresWindow(w, mp) ==
    IF mp = {} THEN DefaultMinPeriods
    ELSE CHOOSE m \in mp : TRUE

\* min_periods as the function uses it: the argument, or max(3, window // 3)
\* when it is None
MinPeriods(w, mp) ==
    IF mp = {} THEN PyMaxInt(DefaultMinPeriods, w \div 3)
    ELSE CHOOSE m \in mp : TRUE

WindowRowsCentered(i, w) == PyMaxInt(1, i - w \div 2)..(i + w \div 2)

\* the 1-based rows of the trailing window of row i: out.iloc[start:end]
\* with start = max(0, i - window + 1) and end = i + 1 for the 0-based i
WindowRows(i, w) == PyMaxInt(1, i - w + 1)..i

\* Series.rolling(window, min_periods).mean() at row i: the mean of the
\* finite values of the window (rolling takes an infinity for NaN), if there
\* are at least m of them
RollingMean(xs, i, w, m) ==
    LET present == SelectSeq(SubSeq(xs, PyMaxInt(1, i - w + 1), i),
                             LAMBDA x : x.k = "num")
    IN  IF Len(present) >= m THEN Mean(present) ELSE NaN

\* Series.corr: NaN for fewer than 2 rows, a constant column or a column
\* holding an infinity, else the Pearson coefficient
SeriesCorr(xs, ys) ==
    LET pear == PearsonR(xs, ys)
    IN  IF Len(xs) < 2 \/ ~AllFinite(xs) \/ ~AllFinite(ys)
        THEN [sign |-> 0, sq |-> NaN]
        ELSE [sign |-> pear.sign, sq |-> pear.sq]

\* roll_corr of row i of the sorted frame, the window's rows being `rows`
RollCorrOver(out, rows, m) ==
    LET window_data == SelectSeq([j \in 1..Len(out) |->
                                     IF j \in rows THEN out[j]
                                     ELSE [datetime |-> 0, v1 |-> NaN, v2 |-> NaN]],
                                 BothPresent)
    IN  IF Len(window_data) >= m
        THEN SeriesCorr(V1s(window_data), V2s(window_data))
        ELSE [sign |-> 0, sq |-> NaN]

RollCorrAt(out, i, w, m) == RollCorrOver(out, WindowRows(i, w), m)

\* The outcome of rolling_corr(df, window, min_periods): the empty frame for
\* an empty df, the ValueError of Series.rolling when min_periods exceeds
\* the window, or the frame sorted by time with v1_roll, v2_roll and
\* roll_corr (as sign and square) added.
RollingCorr(df, w, mp) ==
    IF df = <<>> THEN [kind |-> "empty", rows |-> <<>>]
    ELSE LET out == SortValues(df)
             m == MinPeriods(w, mp)
         IN  IF m > w THEN [kind |-> "raise", rows |-> <<>>]
             ELSE [kind |-> "frame",
                   rows |-> [i \in 1..Len(out) |->
                       LET rc == RollCorrAt(out, i, w, m)
                       IN  [datetime |-> out[i].datetime,
                            v1 |-> out[i].v1,
                            v2 |-> out[i].v2,
                            v1_roll |-> RollingMean(V1s(out), i, w, m),
                            v2_roll |-> RollingMean(V2s(out), i, w, m),
                            sign |-> rc.sign,
                            sq |-> rc.sq]]]

(***************************************************************************)
(* Inputs of rolling_corr                                                  *)
(***************************************************************************)
MaxRollLen == 4

\* the (v1, v2) pairs of a row
RollPairs ==
    {<<Num(1), Num(1)>>, <<Num(1), Num(2)>>, <<Num(2), Num(1)>>, <<Num(2), Num(2)>>,
     <<NaN, Num(1)>>, <<Num(1), NaN>>}

RollWindows == {2, 3, 12}

RollMinPeriods == {{}, {2}}

InitRoll ==
    /\ InitCommon
    /\ metric_name = <<>>

\* one more row, 5 s after the row before; the first row may instead lie
\* after every other row, so that the frame is not sorted
RollAddRow ==
    /\ called = "none"
    /\ Len(corr_in) < MaxRollLen
    /\ \E pr \in RollPairs, late \in BOOLEAN :
          /\ late => corr_in = <<>>
          /\ corr_in' = Append(corr_in,
                 [datetime |-> Day + (IF late THEN MaxRollLen ELSE Len(corr_in))
                                        * FreqTicks("5s"),
                  v1 |-> pr[1], v2 |-> pr[2]])
    /\ UNCHANGED <<ioVars, df1, df2, metric_name, freq, tol, called, cum_out, rate_out,
                   freq_out, aligned, use_norm, corr_out, engineVars>>

CallRollingCorr ==
    /\ called = "none"
    /\ \E w \in RollWindows, mp \in RollMinPeriods :
          /\ window' = w
          /\ min_periods' = mp
          /\ roll_out' = RollingCorr(corr_in, w, mp)
    /\ called' = "rolling_corr"
    /\ UNCHANGED <<ioVars, df1, df2, metric_name, freq, tol, cum_out, rate_out,
                   freq_out, aligned, corr_in, use_norm, corr_out,
                   max_lag, lag_out, ratecorr_out>>

NextRoll == RollAddRow \/ CallRollingCorr

SpecRoll == InitRoll /\ [][NextRoll]_vars

(***************************************************************************)
(* correlations.rate_correlation                                           *)
(***************************************************************************)
MinDiffs == 10

RateNone == [kind |-> "None", n |-> 0, sign |-> 0, sq |-> NaN]

PyMinInt(a, b) == IF a <= b THEN a ELSE b

\* the index labels that clean[col].diff().dropna() keeps: the rows of clean
\* whose difference to the row before is not NaN, in ascending order
DeltaLabels(vals) ==
    LET diffs == Diff(vals)
    IN  SelectSeq([i \in 1..Len(vals) |-> i], LAMBDA i : NotNa(diffs[i]))

\* The outcome of rate_correlation(df): None, or the Pearson correlation (as
\* sign and square) of the first differences of the rows that have both
\* values, with the number n of the differences used.
RateCorrelation(df) ==
    LET clean == SortValues(DropNa(df))
    IN  IF Len(clean) < MinDiffs THEN RateNone
        ELSE LET v1_delta == SelectSeq(Diff(V1s(clean)), NotNa)
                 v2_delta == SelectSeq(Diff(V2s(clean)), NotNa)
                 min_len == PyMinInt(Len(v1_delta), Len(v2_delta))
             IN  IF min_len < MinDiffs THEN RateNone
                 ELSE LET valid == SelectSeq(
                                       [i \in 1..min_len |-> [a |-> v1_delta[i],
                                                              b |-> v2_delta[i]]],
                                       PairPresent)
                          pear == PearsonR([i \in 1..Len(valid) |-> valid[i].a],
                                           [i \in 1..Len(valid) |-> valid[i].b])
                      IN  IF Len(valid) < MinDiffs THEN RateNone
                          ELSE IF pear.kind = "raise"
                          THEN [kind |-> "raise", n |-> 0, sign |-> 0, sq |-> NaN]
                          ELSE [kind |-> "result", n |-> Len(valid),
                                sign |-> pear.sign, sq |-> pear.sq]

(***************************************************************************)
(* Inputs of rate_correlation: series around the minimum length            *)
(***************************************************************************)
RateCorrLens == (MinDiffs - 1)..(MinDiffs + MaxExtraRows)

RateCorrHoles == {0, 3, MinDiffs}

InitRateCorr ==
    /\ \E fc \in BOOLEAN : InitBuild(fc)
    /\ metric_name = <<>>

AllV2Present(df) == \A i \in 1..Len(df) : NotNa(df[i].v2)

RateCorrChooseSeries ==
    /\ called = "none"
    /\ corr_in = <<>>
    /\ \E n \in RateCorrLens, seed \in Seeds, d \in (-MaxDelay)..MaxDelay,
          hole \in RateCorrHoles :
          corr_in' = LongSeries(n, seed, "periodic", d, hole)
    /\ UNCHANGED <<ioVars, df1, df2, metric_name, freq, tol, called, cum_out, rate_out,
                   freq_out, aligned, use_norm, corr_out, engineVars>>

\* one more hole: the v2 of a row is lost
RateCorrDropValue ==
    /\ called = "none"
    /\ corr_in # <<>>
    /\ AllV2Present(SubSeq(corr_in, 1, 2))
    /\ \E i \in 1..2 : corr_in' = [corr_in EXCEPT ![i].v2 = NaN]
    /\ UNCHANGED <<ioVars, df1, df2, metric_name, freq, tol, called, cum_out, rate_out,
                   freq_out, aligned, use_norm, corr_out, engineVars>>

\* an infinite value, which dropna keeps: the v1 of a row becomes +infinity
RateCorrInfValue ==
    /\ called = "none"
    /\ corr_in # <<>>
    /\ \E i \in 2..3 :
          /\ corr_in[i].v1.k = "num"
          /\ corr_in' = [corr_in EXCEPT ![i].v1 = PosInf]
    /\ UNCHANGED <<ioVars, df1, df2, metric_name, freq, tol, called, cum_out, rate_out,
                   freq_out, aligned, use_norm, corr_out, engineVars>>

CallRateCorrelation ==
    /\ called = "none"
    /\ ratecorr_out' = RateCorrelation(corr_in)
    /\ called' = "rate_correlation"
    /\ UNCHANGED <<ioVars, df1, df2, metric_name, freq, tol, cum_out, rate_out,
                   freq_out, aligned, corr_in, use_norm, corr_out,
                   max_lag, lag_out, window, min_periods, roll_out>>

NextRateCorr ==
    RateCorrChooseSeries \/ RateCorrDropValue \/ RateCorrInfValue \/ CallRateCorrelation

SpecRateCorr == InitRateCorr /\ [][NextRateCorr]_vars

(***************************************************************************)
(* The core operations on empty and one-row inputs                         *)
(*                                                                         *)
(* A behaviour builds the arguments and makes one call of one operation;   *)
(* it is not the sequence of calls of the command-line program.            *)
(***************************************************************************)
InitCore ==
    /\ InitCommon
    /\ metric_name \in MetricNames

CoreAddSample1 ==
    /\ called = "none"
    /\ df1 = <<>>
    /\ \E t \in AlignInstants : df1' = <<[datetime |-> t, value |-> Num(1)]>>
    /\ UNCHANGED <<ioVars, df2, metric_name, freq, tol, called, cum_out, rate_out,
                   freq_out, aligned, corr_in, use_norm, corr_out, engineVars>>

CoreAddSample2 ==
    /\ called = "none"
    /\ df2 = <<>>
    /\ \E t \in AlignInstants : df2' = <<[datetime |-> t, value |-> Num(1)]>>
    /\ UNCHANGED <<ioVars, df1, metric_name, freq, tol, called, cum_out, rate_out,
                   freq_out, aligned, corr_in, use_norm, corr_out, engineVars>>

CoreAddRow ==
    /\ called = "none"
    /\ corr_in = <<>>
    /\ \E pr \in RollPairs :
          corr_in' = <<[datetime |-> Day, v1 |-> pr[1], v2 |-> pr[2]]>>
    /\ UNCHANGED <<ioVars, df1, df2, metric_name, freq, tol, called, cum_out, rate_out,
                   freq_out, aligned, use_norm, corr_out, engineVars>>

NextCore ==
    \/ CoreAddSample1
    \/ CoreAddSample2
    \/ CoreAddRow
    \/ CallToRate
    \/ CallInferFreq
    \/ CallAlignMetrics
    \/ CallComputeCorrelations
    \/ CallLagCorrelation
    \/ CallRateCorrelation
    \/ CallRollingCorr

SpecCore == InitCore /\ [][NextCore]_vars

(***************************************************************************)
(* Inputs of the aligner: two series half a second apart                   *)
(***************************************************************************)
MaxPairs == 3

\* half a second, in ticks
JitterTicks == TicksPerSec \div 2

\* instants 0, 1, 4.5, 5, 59.5, 60, 119.5 and 120 s after a midnight
JitterInstants == {Day + (h * TicksPerSec) \div 2 : h \in {0, 2, 9, 10, 119, 120, 239, 240}}

InitJitter ==
    /\ InitCommon
    /\ metric_name = <<>>

\* one more sample of series 1, later than those before, and the sample of
\* series 2 half a second after it
JitterAddPair ==
    /\ called = "none"
    /\ Len(df1) < MaxPairs
    /\ \E t \in JitterInstants :
          /\ \A i \in 1..Len(df1) : df1[i].datetime < t
          /\ df1' = Append(df1, [datetime |-> t, value |-> Num(1)])
          /\ df2' = Append(df2, [datetime |-> t + JitterTicks, value |-> Num(2)])
    /\ UNCHANGED <<ioVars, metric_name, freq, tol, called, cum_out, rate_out,
                   freq_out, aligned, corr_in, use_norm, corr_out, engineVars>>

NextJitter == JitterAddPair \/ CallAlignMetrics

SpecJitter == InitJitter /\ [][NextJitter]_vars

(***************************************************************************)
(* Inputs of the aligner: two samples a series, valued by their instant     *)
(***************************************************************************)
MaxGridLen == 2

\* the sample of instant t: its value is the number of the instant
GridSample(t) ==
    [datetime |-> t, value |-> Num((2 * (t - Day)) \div (5 * TicksPerSec) + 3)]

InitGrid ==
    /\ InitCommon
    /\ metric_name = <<>>

GridAddSample1 ==
    /\ called = "none"
    /\ Len(df1) < MaxGridLen
    /\ \E t \in AlignInstants : df1' = Append(df1, GridSample(t))
    /\ UNCHANGED <<ioVars, df2, metric_name, freq, tol, called, cum_out, rate_out,
                   freq_out, aligned, corr_in, use_norm, corr_out, engineVars>>

GridAddSample2 ==
    /\ called = "none"
    /\ Len(df2) < MaxGridLen
    /\ \E t \in AlignInstants : df2' = Append(df2, GridSample(t))
    /\ UNCHANGED <<ioVars, df1, metric_name, freq, tol, called, cum_out, rate_out,
                   freq_out, aligned, corr_in, use_norm, corr_out, engineVars>>

NextGrid == GridAddSample1 \/ GridAddSample2 \/ CallAlignMetrics

SpecGrid == InitGrid /\ [][NextGrid]_vars

(***************************************************************************)
(* correlations.normalize_series                                           *)
(***************************************************************************)
\* A value that may be irrational, as its sign and its square: sign *
\* sqrt(sq); NaN has the square NaN.
Root(sign, sq) == [sign |-> sign, sq |-> sq]

SignOf(x) == IF x.k # "num" THEN 0 ELSE IF x.n > 0 THEN 1 ELSE IF x.n < 0 THEN -1 ELSE 0

\* the float x in that form
AsRoot(x) == Root(SignOf(x), FMul(x, x))

\* (x - mean) / std for the n values xs that are not NaN, std being the
\* sample standard deviation (ddof = 1): with S = sum(xs) and
\* M = n * sum(x^2) - S^2, it is (n*x - S) * sqrt((n - 1) / (n * M))
ZScore(x, xs) ==
    LET n == Len(xs)
        dev == FSub(FMul(Num(n), x), FSum(xs))
        m == CoMoment(xs, xs)
    IN  IF x.k # "num" \/ n < 2 \/ ~AllFinite(xs) \/ m.n = 0 THEN Root(0, NaN)
        ELSE Root(SignOf(dev),
                  FMul(FMul(dev, dev), Rat((n - 1) * m.d, n * m.n)))

\* normalize_series(s): s itself when s.std() == 0, else (s - mean) / std.
\* Series.std() skips NaN and is NaN for fewer than 2 values and for values
\* holding an infinity, and NaN == 0 is False.
NormalizeSeries(s) ==
    LET present == SelectSeq(s, NotNa)
    IN  IF Len(present) >= 2 /\ AllFinite(present)
           /\ CoMoment(present, present).n = 0
        THEN [kind |-> "series", vals |-> [i \in 1..Len(s) |-> AsRoot(s[i])]]
        ELSE [kind |-> "series", vals |-> [i \in 1..Len(s) |-> ZScore(s[i], present)]]

CallNormalizeSeries ==
    /\ called = "none"
    /\ norm_out' = NormalizeSeries(V1s(corr_in))
    /\ called' = "normalize_series"
    /\ UNCHANGED <<df1, df2, metric_name, freq, tol, cum_out, rate_out,
                   freq_out, aligned, corr_in, use_norm, corr_out, engineVars,
                   file_in, aggregate, machine, load_out, finite_check>>

NextNorm == CorrAddRow \/ CallNormalizeSeries

SpecNorm == InitCorr /\ [][NextNorm]_vars

(***************************************************************************)
(* load_prometheus.load_prometheus_file                                    *)
(***************************************************************************)
\* A file is its format ("json" or "csv") and its entries.  An entry of a
\* JSON export is one element of data.result: its metric (the labels
\* instance and job, each present or not) and its values, pairs of an epoch
\* second and a value text.  An entry of a CSV file is one line: the cell of
\* the column machine (kept in the label instance, missing when the cell is
\* blank) and the cells of the epoch-second columns, blank cells left out.
\* A value text is the number it reads as, or Bad when it reads as none.
Bad == [k |-> "bad", n |-> 0, d |-> 1]

Digits == {"0", "1", "2", "3", "4", "5", "6", "7", "8", "9"}

\* str.isdigit()
IsDigit(t) == t # <<>> /\ \A i \in 1..Len(t) : t[i] \in Digits

\* normalize_instance_name: the text before the last ':' when the text after
\* it is all digits
NormalizeInstanceName(instance) ==
    IF instance = <<>> THEN instance
    ELSE IF \E i \in 1..Len(instance) : instance[i] = ":"
         THEN LET c == CHOOSE i \in 1..Len(instance) :
                           /\ instance[i] = ":"
                           /\ \A j \in (i + 1)..Len(instance) : instance[j] # ":"
              IN  IF IsDigit(SubSeq(instance, c + 1, Len(instance)))
                  THEN SubSeq(instance, 1, c - 1)
                  ELSE instance
         ELSE instance

\* the rows of one entry: its labels with the timestamp and the value of
\* each of its samples
EntryRows(item) ==
    [i \in 1..Len(item.values) |->
        [instance |-> item.metric.instance,
         job |-> item.metric.job,
         datetime |-> item.values[i].ts * TicksPerSec,
         value |-> item.values[i].val]]

\* the rows of all entries, in the order of the file
RECURSIVE AllRows(_)
AllRows(results) ==
    IF results = <<>> THEN <<>>
    ELSE AllRows(SubSeq(results, 1, Len(results) - 1)) \o EntryRows(results[Len(results)])

IsBad(r) == r.value = Bad

NotBad(r) == r.value # Bad

\* Series.str.contains(pat, na=False) for a pattern without regular
\* expression characters: False where the label is missing
StrContains(label, pat) == \E x \in label : Contains(x, pat)

\* the machine filter of the JSON path, run on a frame that has the column
\* instance: a row of an entry without the label holds NaN there, and
\* normalize_instance_name raises TypeError on it (':' in instance with a
\* float); else the rows whose label, raw or normalized, contains m
MachineRows(rows, m) ==
    IF \E i \in 1..Len(rows) : rows[i].instance = {}
    THEN [kind |-> "raise", rows |-> <<>>]
    ELSE [kind |-> "frame",
          rows |-> SelectSeq(rows, LAMBDA r :
                       \/ StrContains(r.instance, m)
                       \/ StrContains({NormalizeInstanceName(x) : x \in r.instance}, m))]

\* the elements of a finite set of integers in ascending order
RECURSIVE Ascending(_)
Ascending(S) ==
    IF S = {} THEN <<>>
    ELSE LET lo == CHOOSE x \in S : \A y \in S : x <= y
         IN  <<lo>> \o Ascending(S \ {lo})

DatetimeValue(rows) ==
    [i \in 1..Len(rows) |-> [datetime |-> rows[i].datetime, value |-> rows[i].value]]

\* df.groupby(["datetime"], as_index=False).agg({"value": "sum"}): one row
\* per instant, in ascending order; the sum skips NaN and is 0 when every
\* value of the instant is NaN
GroupByDatetime(rows) ==
    LET keys == Ascending({rows[i].datetime : i \in 1..Len(rows)})
    IN  [k \in 1..Len(keys) |->
            [datetime |-> keys[k],
             value |-> FSum(SelectSeq(Values(SelectSeq(rows,
                                         LAMBDA r : r.datetime = keys[k])), NotNa))]]

Frame(rows) == [kind |-> "frame", rows |-> rows]

\* the JSON path of load_prometheus_file: float(val) raises ValueError on a
\* value text that is no number, the machine filter raises TypeError when
\* only some entries have the label instance
LoadJson(results, agg, mach) ==
    LET rows == AllRows(results)
    IN  IF \E i \in 1..Len(rows) : IsBad(rows[i])
        THEN [kind |-> "raise", rows |-> <<>>]
        ELSE IF rows = <<>> THEN Frame(<<>>)
        ELSE LET has_instance == \E i \in 1..Len(rows) : rows[i].instance # {}
                 label_cols == \E i \in 1..Len(rows) :
                                   rows[i].instance # {} \/ rows[i].job # {}
                 filtered == IF mach # {} /\ has_instance
                             THEN MachineRows(rows, CHOOSE m \in mach : TRUE)
                             ELSE Frame(rows)
                 df == filtered.rows
             IN  IF filtered.kind = "raise" THEN [kind |-> "raise", rows |-> <<>>]
                 ELSE IF agg /\ Len(df) > 0 /\ label_cols
                 THEN Frame(SortValues(GroupByDatetime(df)))
                 ELSE Frame(SortValues(DatetimeValue(df)))

\* the text of the cell machine: astype(str) turns a blank cell into "nan"
MachineCell(item) ==
    IF item.metric.instance = {} THEN <<"n", "a", "n">>
    ELSE CHOOSE x \in item.metric.instance : TRUE

\* the CSV path of load_prometheus_file, for a file that has the column
\* machine
LoadCsv(lines, mach) ==
    IF lines = <<>> THEN Frame(<<>>)
    ELSE LET df == IF mach # {}
                   THEN SelectSeq(lines, LAMBDA item :
                            Contains(MachineCell(item), CHOOSE m \in mach : TRUE))
                   ELSE lines
             long_df == AllRows(df)
         IN  IF long_df = <<>> THEN Frame(<<>>)
             ELSE Frame(SortValues(DatetimeValue(SelectSeq(long_df, NotBad))))

\* load_prometheus_file(file_path, aggregate, machine)
LoadPrometheusFile(file, agg, mach) ==
    IF file.format = "csv" THEN LoadCsv(file.entries, mach)
    ELSE LoadJson(file.entries, agg, mach)

(***************************************************************************)
(* Inputs of the loader                                                    *)
(***************************************************************************)
MaxEntries == 2

Host1 == <<"h", "1">>

Host1Port == <<"h", "1", ":", "9">>

Host2Port == <<"h", "2", ":", "9">>

\* the metric of an entry: no label, the label job only, or an instance
LoadMetrics ==
    {[instance |-> {}, job |-> {}], [instance |-> {}, job |-> {"node"}],
     [instance |-> {Host1Port}, job |-> {}], [instance |-> {Host2Port}, job |-> {}]}

\* the value of an entry at one instant: none, 1, 2 or a text that is no
\* number
SampleOptions == {{}, {Num(1)}, {Num(2)}, {Bad}}

\* the values of an entry that has the value options a and b at the epoch
\* seconds 1000 and 2000
EntryValues(a, b) ==
    [i \in 1..Cardinality(a) |-> [ts |-> 1000, val |-> CHOOSE v \in a : TRUE]]
        \o [i \in 1..Cardinality(b) |-> [ts |-> 2000, val |-> CHOOSE v \in b : TRUE]]

LoadMachines == {{}, {Host1}}

InitLoad ==
    /\ df1 = <<>>
    /\ df2 = <<>>
    /\ metric_name = <<>>
    /\ freq = {}
    /\ tol = {}
    /\ called = "none"
    /\ cum_out = FALSE
    /\ rate_out = <<>>
    /\ freq_out = ""
    /\ aligned = <<>>
    /\ corr_in = <<>>
    /\ use_norm = FALSE
    /\ corr_out = [kind |-> "none", n |-> 0, sign |-> 0, sq |-> NaN]
    /\ max_lag = {}
    /\ lag_out = [kind |-> "none", best_lag |-> 0, sign |-> 0, sq |-> NaN,
                  all_lags |-> <<>>]
    /\ ratecorr_out = [kind |-> "none", n |-> 0, sign |-> 0, sq |-> NaN]
    /\ window = 0
    /\ min_periods = {}
    /\ roll_out = [kind |-> "none", rows |-> <<>>]
    /\ norm_out = [kind |-> "none", vals |-> <<>>]
    /\ file_in \in {[format |-> f, entries |-> <<>>] : f \in {"json", "csv"}}
    /\ aggregate = TRUE
    /\ machine = {}
    /\ load_out = [kind |-> "none", rows |-> <<>>]
    /\ finite_check = FALSE

LoadAddEntry ==
    /\ called = "none"
    /\ Len(file_in.entries) < MaxEntries
    /\ \E metric \in LoadMetrics, a \in SampleOptions, b \in SampleOptions :
          file_in' = [file_in EXCEPT !.entries =
                         Append(@, [metric |-> metric, values |-> EntryValues(a, b)])]
    /\ UNCHANGED <<df1, df2, metric_name, freq, tol, called, cum_out, rate_out,
                   freq_out, aligned, corr_in, use_norm, corr_out, engineVars,
                   norm_out, aggregate, machine, load_out, finite_check>>

CallLoadPrometheusFile ==
    /\ called = "none"
    /\ \E agg \in BOOLEAN, mach \in LoadMachines :
          /\ aggregate' = agg
          /\ machine' = mach
          /\ load_out' = LoadPrometheusFile(file_in, agg, mach)
    /\ called' = "load_prometheus_file"
    /\ UNCHANGED <<df1, df2, metric_name, freq, tol, cum_out, rate_out,
                   freq_out, aligned, corr_in, use_norm, corr_out, engineVars,
                   norm_out, file_in, finite_check>>

NextLoad == LoadAddEntry \/ CallLoadPrometheusFile

SpecLoad == InitLoad /\ [][NextLoad]_vars

(***************************************************************************)
(* Properties of the rate normalizer                                       *)
(***************************************************************************)
DistinctInstants(df) ==
    \A i, j \in 1..Len(df) : i # j => df[i].datetime # df[j].datetime

\* the row of df that has exactly j rows at earlier instants
RowOfRank(df, j) ==
    CHOOSE r \in {df[i] : i \in 1..Len(df)} :
        Cardinality({i \in 1..Len(df) : df[i].datetime < r.datetime}) = j

\* max(0, (value[j] - value[j-1]) / seconds between them) for the rows of
\* time ranks j-1 and j
ExpectedRate(df, j) ==
    LET prev == RowOfRank(df, j - 1)
        cur == RowOfRank(df, j)
        dv == cur.value.n - prev.value.n
    IN  IF dv < 0 THEN Num(0)
        ELSE Rat(dv * TicksPerSec, cur.datetime - prev.datetime)

\* C4: for a series classified cumulative with n >= 2 samples at distinct
\* instants, to_rate returns n-1 rows in ascending time, row j holding
\* max(0, (value[j]-value[j-1]) / (time[j]-time[j-1] in seconds)), so every
\* output value is >= 0.
C4_RateRows ==
    (/\ called = "to_rate"
     /\ Len(df1) >= 2
     /\ DistinctInstants(df1)
     /\ IsCumulative(df1, metric_name))
    => /\ Len(rate_out) = Len(df1) - 1
       /\ \A j \in 1..Len(rate_out) :
            /\ rate_out[j].datetime = RowOfRank(df1, j).datetime
            /\ rate_out[j].value = ExpectedRate(df1, j)
            /\ rate_out[j].value.k = "num" /\ rate_out[j].value.n >= 0
       /\ \A j \in 1..(Len(rate_out) - 1) :
            rate_out[j].datetime < rate_out[j + 1].datetime

\* a counter reset among three samples given out of time order
C4_Witness ==
    /\ called = "to_rate"
    /\ Len(df1) = 3
    /\ DistinctInstants(df1)
    /\ IsCumulative(df1, metric_name)
    /\ df1[1].datetime > df1[2].datetime
    /\ \E j \in 1..2 : RowOfRank(df1, j).value.n < RowOfRank(df1, j - 1).value.n
    /\ \E j \in 1..2 : rate_out[j].value.n > 0
    /\ Len(rate_out) = 2

\* number of successive differences of the time-sorted values that are >= 0
NonNegativeSteps(df) ==
    Cardinality({j \in 1..(Len(df) - 1) :
                    RowOfRank(df, j).value.n >= RowOfRank(df, j - 1).value.n})

\* C5: for a series of at least 2 samples whose name carries no cumulative
\* marker, _is_cumulative returns true exactly when more than 95% of the
\* n-1 successive differences of the time-sorted values are non-negative.
C5_BehaviourOverDifferences ==
    (/\ called = "_is_cumulative"
     /\ Len(df1) >= 2
     /\ DistinctInstants(df1)
     /\ ~HasMarker(metric_name))
    => (cum_out <=> NonNegativeSteps(df1) * 100 > CumulativePct * (Len(df1) - 1))

\* C6: a series whose name contains 'cumulative' or '_total', compared
\* case-insensitively, is classified cumulative regardless of its values.
C6_MarkerNameIsCumulative ==
    (/\ called = "_is_cumulative"
     /\ \/ Contains(Lower(metric_name), MarkerCumulative)
        \/ Contains(Lower(metric_name), MarkerTotal))
    => cum_out = TRUE

\* an upper-case marker in the middle of the name, over strictly falling values
C6_Witness ==
    /\ called = "_is_cumulative"
    /\ metric_name = <<"X", "_", "T", "O", "T", "A", "L", "_", "x">>
    /\ Len(df1) = 3
    /\ df1[1].datetime < df1[2].datetime /\ df1[2].datetime < df1[3].datetime
    /\ df1[1].value.n > df1[2].value.n /\ df1[2].value.n > df1[3].value.n
    /\ cum_out = TRUE

\* C7 as stated: _is_cumulative returns false for every series with fewer
\* than 2 samples, whatever the series name is.
C7_ShortNeverCumulative ==
    (called = "_is_cumulative" /\ Len(df1) < 2) => cum_out = FALSE

\* C7 amended: for a series with fewer than 2 samples _is_cumulative returns
\* false when the name carries no cumulative marker, and true when it does.
C7_ShortFollowsName ==
    (called = "_is_cumulative" /\ Len(df1) < 2)
    => (cum_out <=> (\/ Contains(Lower(metric_name), MarkerCumulative)
                     \/ Contains(Lower(metric_name), MarkerTotal)))

\* a single sample under an unmarked name
C7_Witness ==
    /\ called = "_is_cumulative"
    /\ Len(df1) = 1
    /\ metric_name = <<"c", "p", "u">>
    /\ cum_out = FALSE

\* C8: to_rate returns its input unchanged (same rows, same order, same
\* values) whenever the series has fewer than 2 samples, even under a
\* cumulative-marker name, or is not classified cumulative.
C8_PassThrough ==
    (/\ called = "to_rate"
     /\ \/ Len(df1) < 2
        \/ ~IsCumulative(df1, metric_name))
    => rate_out = df1

\* three samples given out of time order under an unmarked name
C8_Witness ==
    /\ called = "to_rate"
    /\ Len(df1) = 3
    /\ ~HasMarker(metric_name)
    /\ df1[1].datetime > df1[2].datetime
    /\ df1[1].value # df1[2].value
    /\ rate_out = df1

(***************************************************************************)
(* Properties of the frequency inferencer                                  *)
(***************************************************************************)
\* twice the median of the successive-sample gaps of df, in ticks: the
\* middle element of the gaps in ascending order, or the mean of the middle
\* two
MedianOfGaps2(df) ==
    LET n == Len(df) - 1
        gap(i) == df[i + 1].datetime - df[i].datetime
        below(i) == Cardinality({j \in 1..n : gap(j) < gap(i)})
        upto(i) == Cardinality({j \in 1..n : gap(j) <= gap(i)})
        \* the gap holding position p of the ascending order
        at(p) == gap(CHOOSE i \in 1..n : below(i) < p /\ p <= upto(i))
    IN  IF n % 2 = 1 THEN 2 * at((n + 1) \div 2)
        ELSE at(n \div 2) + at(n \div 2 + 1)

\* twice the median gaps of those of the two series that have a gap, that
\* is at least 2 samples
MedianGaps2(a, b) ==
    {MedianOfGaps2(x) : x \in {y \in {a, b} : Len(y) >= 2}}

\* C9: infer_freq returns '1s' if either series is empty; otherwise, with g
\* the smaller of the two series' median successive-sample gaps in seconds
\* (the only one, when one of the series has a single sample and so no gap),
\* '5s' if g < 5, '30s' if 5 <= g < 30 and '1min' if g >= 30; nothing
\* coarser than one minute is returned.
C9_InferFreq ==
    called = "infer_freq" =>
        /\ (Len(df1) = 0 \/ Len(df2) = 0) => freq_out = "1s"
        /\ (Len(df1) >= 1 /\ Len(df2) >= 1 /\ MedianGaps2(df1, df2) # {}) =>
              LET g2 == CHOOSE x \in MedianGaps2(df1, df2) :
                            \A y \in MedianGaps2(df1, df2) : x <= y
                  sec2 == 2 * TicksPerSec
              IN  /\ g2 < 5 * sec2 => freq_out = "5s"
                  /\ (5 * sec2 <= g2 /\ g2 < 30 * sec2) => freq_out = "30s"
                  /\ g2 >= 30 * sec2 => freq_out = "1min"
        /\ freq_out \in {"1s", "5s", "30s", "1min"}

(***************************************************************************)
(* Properties of the aligner                                               *)
(***************************************************************************)
\* the two resampled grids and the tolerance of the call recorded in the state
LeftGrid == Resample(df1, FreqTicks(Cadence(df1, df2, freq)))

RightGrid == Resample(df2, FreqTicks(Cadence(df1, df2, freq)))

CallTolerance ==
    IF tol = {} THEN 2 * FreqTicks(Cadence(df1, df2, freq))
    ELSE CHOOSE x \in tol : TRUE

Aligned == called = "align_metrics" /\ Len(df1) > 0 /\ Len(df2) > 0

\* C1: every row returned by align_metrics has both v1 and v2 defined; rows
\* lacking a match within tolerance, or matched to an empty bucket, are
\* dropped rather than null-filled.
C1_BothValuesPresent ==
    called = "align_metrics" =>
        \A i \in 1..Len(aligned) :
            aligned[i].v1.k # "nan" /\ aligned[i].v2.k # "nan"

\* one left bucket is matched and kept while another has no right-grid
\* instant within the tolerance
C1_Witness ==
    /\ Aligned
    /\ Len(aligned) = 1
    /\ \E i \in 1..Len(LeftGrid) :
          /\ LeftGrid[i].value.k = "num"
          /\ \A j \in 1..Len(RightGrid) :
                Abs(RightGrid[j].datetime - LeftGrid[i].datetime) > CallTolerance

\* C2: every output row pairs the series-1 bucket at a left-grid instant t
\* with the series-2 bucket at the right-grid instant nearest to t, which is
\* within the tolerance of t (twice the cadence when none is supplied); a
\* left instant with no right-grid instant within the tolerance gives no row.
C2_NearestWithinTolerance ==
    Aligned =>
        /\ \A r \in 1..Len(aligned) :
              \E i \in 1..Len(LeftGrid), j \in 1..Len(RightGrid) :
                 /\ LeftGrid[i].datetime = aligned[r].datetime
                 /\ LeftGrid[i].value = aligned[r].v1
                 /\ RightGrid[j].value = aligned[r].v2
                 /\ Abs(RightGrid[j].datetime - aligned[r].datetime) <= CallTolerance
                 /\ \A m \in 1..Len(RightGrid) :
                       Abs(RightGrid[j].datetime - aligned[r].datetime)
                         <= Abs(RightGrid[m].datetime - aligned[r].datetime)
        /\ \A i \in 1..Len(LeftGrid) :
              (\A j \in 1..Len(RightGrid) :
                   Abs(RightGrid[j].datetime - LeftGrid[i].datetime) > CallTolerance)
              => \A r \in 1..Len(aligned) :
                     aligned[r].datetime # LeftGrid[i].datetime

\* a row whose right bucket lies later than its instant and nearer than an
\* earlier right bucket that holds another value
C2_Witness ==
    /\ Aligned
    /\ \E r \in 1..Len(aligned), j, m \in 1..Len(RightGrid) :
          /\ RightGrid[j].datetime > aligned[r].datetime
          /\ RightGrid[m].datetime < aligned[r].datetime
          /\ RightGrid[j].datetime - aligned[r].datetime
               < aligned[r].datetime - RightGrid[m].datetime
          /\ aligned[r].datetime - RightGrid[m].datetime <= CallTolerance
          /\ RightGrid[m].value.k = "num"
          /\ RightGrid[m].value # RightGrid[j].value
          /\ aligned[r].v2 = RightGrid[j].value

\* C3: the output of align_metrics is in strictly ascending time order and
\* holds no instant twice, for inputs in any order and with repeated instants.
C3_StrictlyAscending ==
    called = "align_metrics" =>
        \A i, j \in 1..Len(aligned) :
            i < j => aligned[i].datetime < aligned[j].datetime

\* series 1 given latest sample first, both of its buckets matched
C3_Witness ==
    /\ Aligned
    /\ Len(df1) = 2
    /\ df1[1].datetime > df1[2].datetime
    /\ Len(aligned) = 2

(***************************************************************************)
(* Properties of the correlation engine                                    *)
(***************************************************************************)
\* number of rows of the input with both values defined
PairedRows(df) ==
    Cardinality({i \in 1..Len(df) : df[i].v1.k # "nan" /\ df[i].v2.k # "nan"})

\* C10: compute_correlations returns the undefined result (None) and raises
\* nothing whenever fewer than 2 rows have both values defined, including
\* the case of exactly one paired row.
C10_UndefinedBelowTwoPairs ==
    (called = "compute_correlations" /\ PairedRows(corr_in) < 2)
    => corr_out.kind = "None"

\* the indices of the rows with both values defined, in ascending order
RECURSIVE PairedIndices(_, _)
PairedIndices(df, k) ==
    IF k = 0 THEN <<>>
    ELSE IF df[k].v1.k # "nan" /\ df[k].v2.k # "nan"
         THEN Append(PairedIndices(df, k - 1), k)
         ELSE PairedIndices(df, k - 1)

\* C11: the sample count n reported by compute_correlations equals the
\* number of input rows in which both v1 and v2 are defined; a row with one
\* side undefined is dropped entirely and contributes to neither column of
\* the correlation.
C11_CountsPairedRows ==
    called = "compute_correlations" =>
        LET idx == PairedIndices(corr_in, Len(corr_in))
            pear == PearsonR([i \in 1..Len(idx) |-> corr_in[idx[i]].v1],
                             [i \in 1..Len(idx) |-> corr_in[idx[i]].v2])
        IN  /\ PairedRows(corr_in) >= 2 => corr_out.kind = "result"
            /\ corr_out.kind = "result" =>
                  /\ corr_out.n = PairedRows(corr_in)
                  /\ corr_out.sign = pear.sign
                  /\ corr_out.sq = pear.sq

\* three rows of which the middle one lacks v2 only: n is 2 and the two
\* remaining rows correlate perfectly
C11_Witness ==
    /\ called = "compute_correlations"
    /\ Len(corr_in) = 3
    /\ corr_in[2].v1.k = "num" /\ corr_in[2].v2.k = "nan"
    /\ corr_in[1].v1 # corr_in[3].v1
    /\ corr_out.kind = "result"
    /\ corr_out.n = 2
    /\ corr_out.sq = Num(1)

(***************************************************************************)
(* Properties of the lag sweep                                             *)
(***************************************************************************)
\* the max_lag of the call
LagArg == IF max_lag = {} THEN DefaultMaxLag ELSE CHOOSE m \in max_lag : TRUE

AllPresent(df) == \A i \in 1..Len(df) : BothPresent(df[i])

\* v2 is v1 d steps later
DelayedBy(df, d) ==
    /\ AllPresent(df)
    /\ \A i \in (d + 1)..Len(df) : df[i].v2 = df[i - d].v1

\* v1 differs somewhere from itself moved by any 1..reach steps
NoOtherShift(df, reach) ==
    \A e \in 1..reach : \E i \in (e + 1)..Len(df) : df[i].v1 # df[i - e].v1

\* C12: when series 2 is series 1 delayed by d steps (0 < d <= max_lag), every
\* lag has enough rows to be evaluated and v1 matches itself at no other
\* shift, lag_correlation reports best_lag = +d.
C12_PositiveLagMeansSeries2Lags ==
    called = "lag_correlation" =>
        \A d \in 1..LagArg :
            (/\ DelayedBy(corr_in, d)
             /\ NoOtherShift(corr_in, 2 * LagArg)
             /\ Len(corr_in) >= MinOverlap + LagArg)
            => (lag_out.kind = "result" /\ lag_out.best_lag = d)

\* C13: for series in which v2 equals v1 row for row (with enough rows for
\* every lag to be evaluated), lag_correlation with max_lag = 5 returns a
\* result whose best lag is 0 and whose correlation is 1.
C13_IdenticalSeriesBestLagZero ==
    (/\ called = "lag_correlation"
     /\ max_lag = {5}
     /\ AllPresent(corr_in)
     /\ \A i \in 1..Len(corr_in) : corr_in[i].v2 = corr_in[i].v1
     /\ Len(corr_in) >= MinOverlap + 5)
    => (/\ lag_out.kind = "result"
        /\ lag_out.best_lag = 0
        /\ lag_out.sign = 1
        /\ lag_out.sq = Num(1))

\* C14: the best lag is an evaluated lag whose absolute correlation is the
\* largest of all evaluated lags, and of the lags that tie at that value the
\* one with the smallest absolute lag is reported.
C14_BestIsMaxAbsSmallestLag ==
    (called = "lag_correlation" /\ lag_out.kind = "result") =>
        LET rows == lag_out.all_lags
            ok == {i \in 1..Len(rows) : NotNa(rows[i].sq)}
        IN  \E b \in ok :
                /\ rows[b].lag = lag_out.best_lag
                /\ rows[b].sq = lag_out.sq
                /\ \A j \in ok : ~AbsLess(rows[b], rows[j])
                /\ \A j \in ok : rows[j].sq = rows[b].sq =>
                                     Abs(rows[b].lag) <= Abs(rows[j].lag)

(***************************************************************************)
(* Properties of the rolling correlation                                   *)
(***************************************************************************)
RollRows == roll_out.rows

\* the frame with row j's values replaced by the pair pr
WithRow(df, j, pr) == [df EXCEPT ![j].v1 = pr[1], ![j].v2 = pr[2]]

SameRollCorr(a, b) == a.sign = b.sign /\ a.sq = b.sq

\* C15: roll_corr of row i of the time-sorted series depends only on the rows
\* up to i: the series cut after row i, and every series that differs in one
\* later row only, give row i the same roll_corr (defined or not).
C15_RollingCausality ==
    (called = "rolling_corr" /\ roll_out.kind = "frame") =>
        LET sorted == SortValues(corr_in)
        IN  \A i \in 1..Len(sorted) :
                /\ SameRollCorr(RollingCorr(SubSeq(sorted, 1, i), window, min_periods).rows[i],
                                RollRows[i])
                /\ \A j \in (i + 1)..Len(sorted), pr \in RollPairs :
                       SameRollCorr(RollingCorr(WithRow(sorted, j, pr), window,
                                                min_periods).rows[i],
                                    RollRows[i])

C15_Witness ==
    /\ called = "rolling_corr"
    /\ roll_out.kind = "frame"
    /\ Len(RollRows) = 4
    /\ window = 3
    /\ NotNa(RollRows[3].sq)
    /\ RollRows[3].sign = 1
    /\ RollRows[4].sign = -1

\* the rows of the trailing window of the 1-based row i that have both values
PairedWindow(sorted, i, w) ==
    SelectSeq(SubSeq(sorted, IF i - w + 1 > 1 THEN i - w + 1 ELSE 1, i), BothPresent)

RequiredRows ==
    IF min_periods = {}
    THEN (IF window \div 3 > 3 THEN window \div 3 ELSE 3)
    ELSE CHOOSE m \in min_periods : TRUE

\* C16: row i's roll_corr is the Pearson correlation of exactly the rows of
\* its trailing window [max(0, i-window+1), i] that have both values, and
\* only when there are at least min_periods of them (max(3, window // 3) by
\* default); otherwise it is undefined, as it is for the first
\* min_periods-1 rows.
C16_TrailingWindow ==
    (called = "rolling_corr" /\ roll_out.kind = "frame") =>
        LET sorted == SortValues(corr_in)
        IN  /\ Len(RollRows) = Len(sorted)
            /\ \A i \in 1..Len(sorted) :
                   LET subset == PairedWindow(sorted, i, window)
                       pear == PearsonR(V1s(subset), V2s(subset))
                   IN  /\ Len(subset) < RequiredRows => IsNaN(RollRows[i].sq)
                       /\ (Len(subset) >= RequiredRows /\ Len(subset) >= 2) =>
                              (RollRows[i].sq = pear.sq /\ RollRows[i].sign = pear.sign)
                       /\ i < RequiredRows => IsNaN(RollRows[i].sq)

C16_Witness ==
    /\ called = "rolling_corr"
    /\ roll_out.kind = "frame"
    /\ window = 12
    /\ min_periods = {}
    /\ Len(RollRows) = 4
    /\ IsNaN(RollRows[3].sq)
    /\ RollRows[4].sq = Num(1)

\* C17: for a series that is not empty and any window >= 1, min_periods
\* being omitted, rolling_corr returns one row per input row, with the
\* input's instants in ascending order.
C17_OneRowPerInputRow ==
    (called = "rolling_corr" /\ corr_in # <<>> /\ window >= 1 /\ min_periods = {}) =>
        /\ roll_out.kind = "frame"
        /\ Len(RollRows) = Len(corr_in)
        /\ \A i \in 1..(Len(RollRows) - 1) : RollRows[i].datetime <= RollRows[i + 1].datetime
        /\ \A t \in {corr_in[i].datetime : i \in 1..Len(corr_in)} :
               Cardinality({i \in 1..Len(corr_in) : corr_in[i].datetime = t})
                   = Cardinality({i \in 1..Len(RollRows) : RollRows[i].datetime = t})

(***************************************************************************)
(* Properties of the rate correlation                                      *)
(***************************************************************************)
\* the differences between each paired row and the paired row before it
PairedDeltas(df, col) ==
    LET idx == PairedIndices(df, Len(df))
    IN  [i \in 1..(Len(idx) - 1) |->
            IF col = 1 THEN FSub(df[idx[i + 1]].v1, df[idx[i]].v1)
            ELSE FSub(df[idx[i + 1]].v2, df[idx[i]].v2)]

\* C18: rate_correlation returns None when fewer than 10 paired first
\* differences exist; otherwise it returns the correlation of the paired
\* differences, and its n is their number, one less than the number of rows
\* that have both values.
C18_RateCorrelationCount ==
    called = "rate_correlation" =>
        LET dv1 == PairedDeltas(corr_in, 1)
            dv2 == PairedDeltas(corr_in, 2)
        IN  IF PairedRows(corr_in) - 1 < MinDiffs
            THEN ratecorr_out.kind = "None"
            ELSE /\ ratecorr_out.kind = "result"
                 /\ ratecorr_out.n = PairedRows(corr_in) - 1
                 /\ ratecorr_out.n = Len(dv1)
                 /\ ratecorr_out.sign = PearsonR(dv1, dv2).sign
                 /\ ratecorr_out.sq = PearsonR(dv1, dv2).sq

(***************************************************************************)
(* Properties of the core operations on empty inputs                       *)
(***************************************************************************)
\* C19: on an empty series or an empty aligned series every core operation
\* returns its empty or undefined result and raises nothing: to_rate the
\* input, infer_freq "1s", align_metrics no rows, compute_correlations,
\* lag_correlation and rate_correlation None, rolling_corr the empty frame.
C19_EmptyInEmptyOut ==
    /\ (called = "to_rate" /\ df1 = <<>>) => rate_out = df1
    /\ (called = "infer_freq" /\ (df1 = <<>> \/ df2 = <<>>)) => freq_out = "1s"
    /\ (called = "align_metrics" /\ (df1 = <<>> \/ df2 = <<>>)) => aligned = <<>>
    /\ (called = "compute_correlations" /\ corr_in = <<>>) => corr_out.kind = "None"
    /\ (called = "lag_correlation" /\ corr_in = <<>>) => lag_out.kind = "None"
    /\ (called = "rate_correlation" /\ corr_in = <<>>) => ratecorr_out.kind = "None"
    /\ (called = "rolling_corr" /\ corr_in = <<>>) => roll_out.kind = "empty"

C19_Witness ==
    /\ called = "infer_freq"
    /\ df1 # <<>>
    /\ df2 = <<>>
    /\ freq_out = "1s"

(***************************************************************************)
(* Properties of the aligner on series half a second apart                 *)
(***************************************************************************)
JitterCall ==
    /\ called = "align_metrics"
    /\ freq = {}
    /\ tol = {TicksPerSec}
    /\ Len(df1) = 3
    /\ Len(df2) = 3
    /\ \A i \in 1..3 : df2[i].datetime = df1[i].datetime + JitterTicks

\* C20 as stated: three samples each, series 2 half a second after series 1,
\* tolerance 1 s and no cadence give exactly 3 rows, whatever the spacing.
C20_AlwaysThreeRows == JitterCall => Len(aligned) = 3

\* the cadence bin of instant t, counted from the midnight before
BinOf(t, step) == (t - (t \div Day) * Day) \div step

\* C20, amended: the call returns one row per cadence bin that holds a sample
\* of both series, so exactly 3 rows if and only if the three samples of
\* series 1 lie in three different bins of the inferred cadence and every
\* sample of series 2 lies in the bin of its sample of series 1.
C20_ThreeRowsIffThreeSharedBins ==
    JitterCall =>
        LET step == FreqTicks(InferFreq(df1, df2))
            shared == {BinOf(df1[i].datetime, step) : i \in 1..3}
                          \cap {BinOf(df2[i].datetime, step) : i \in 1..3}
        IN  /\ Len(aligned) = Cardinality(shared)
            /\ Len(aligned) = 3 <=>
                   /\ Cardinality({BinOf(df1[i].datetime, step) : i \in 1..3}) = 3
                   /\ \A i \in 1..3 : BinOf(df2[i].datetime, step)
                                          = BinOf(df1[i].datetime, step)

C20_Witness ==
    /\ JitterCall
    /\ df1[2].datetime - df1[1].datetime = 60 * TicksPerSec
    /\ df1[3].datetime - df1[2].datetime = 60 * TicksPerSec
    /\ Len(aligned) = 3
    /\ aligned[3].v1 = Num(1)
    /\ aligned[3].v2 = Num(2)

(***************************************************************************)
(* Properties of the default lag range                                     *)
(***************************************************************************)
TableLags == {lag_out.all_lags[i].lag : i \in 1..Len(lag_out.all_lags)}

\* C21: when max_lag is not passed, lag_correlation sweeps the lags -20..+20:
\* its table holds every lag of that range whose overlap reaches 100 rows.
C21_DefaultSweepIsTwenty ==
    (called = "lag_correlation" /\ max_lag = {} /\ lag_out.kind = "result") =>
        TableLags = {k \in -20..20 :
                        PairedRows(corr_in) - Abs(k) >= MinOverlap}

(***************************************************************************)
(* Properties of the normaliser                                            *)
(***************************************************************************)
NormIn == V1s(corr_in)

AllNum(s) == \A i \in 1..Len(s) : s[i].k = "num"

ConstantSeries(s) ==
    /\ s # <<>>
    /\ \A i \in 1..Len(s) : s[i].k = "num" /\ s[i] = s[1]

\* C22: the normaliser returns every constant series that is not empty
\* unchanged, whatever its length (1 included), and divides nothing by zero;
\* a series that is not constant becomes (s - mean) / std.
C22_ConstantSeriesUnchanged ==
    called = "normalize_series" =>
        /\ norm_out.kind = "series"
        /\ Len(norm_out.vals) = Len(NormIn)
        /\ ConstantSeries(NormIn) =>
               \A i \in 1..Len(NormIn) : norm_out.vals[i] = AsRoot(NormIn[i])
        /\ (AllNum(NormIn) /\ ~ConstantSeries(NormIn)) =>
               \A i \in 1..Len(NormIn) : norm_out.vals[i] = ZScore(NormIn[i], NormIn)

(***************************************************************************)
(* Properties of the loader                                                *)
(***************************************************************************)
LoadRows == load_out.rows

\* every sample of the file, with its entry's labels
FileSamples == AllRows(file_in.entries)

\* C23: with aggregate=True the returned series has no duplicate instants and
\* is in ascending order: the samples that share an instant become one row,
\* whose value is their sum.
C23_AggregatedInstantsUnique ==
    (called = "load_prometheus_file" /\ aggregate /\ load_out.kind = "frame") =>
        /\ \A i \in 1..(Len(LoadRows) - 1) : LoadRows[i].datetime < LoadRows[i + 1].datetime
        /\ (machine = {} /\ \A i \in 1..Len(FileSamples) : NotBad(FileSamples[i])) =>
               \A i \in 1..Len(LoadRows) :
                   LoadRows[i].value =
                       FSum(Values(SelectSeq(FileSamples,
                                LAMBDA r : r.datetime = LoadRows[i].datetime)))

\* C24: a sample whose value is no number makes the call fail, in a JSON file
\* and in a CSV file alike; it is never dropped.
C24_BadValueRaises ==
    (called = "load_prometheus_file" /\ \E i \in 1..Len(FileSamples) : IsBad(FileSamples[i]))
        => load_out.kind = "raise"

\* the entry's instance label, raw or without its port, contains m
InstanceMatches(r, m) ==
    \E x \in r.instance :
        \/ Contains(x, m)
        \/ (/\ \E c \in 1..Len(x) : /\ x[c] = ":"
                                    /\ IsDigit(SubSeq(x, c + 1, Len(x)))
                                    /\ Contains(SubSeq(x, 1, c - 1), m))

\* C25: on a JSON export with machine = m, only samples of entries whose
\* instance label (raw, or with its ':<digits>' suffix stripped) contains m
\* contribute: at every instant the returned values add up to the sum of
\* the samples of those entries.
C25_OnlyMatchingEntriesContribute ==
    (/\ called = "load_prometheus_file"
     /\ file_in.format = "json"
     /\ machine # {}
     /\ load_out.kind = "frame") =>
        LET m == CHOOSE x \in machine : TRUE
            matching == SelectSeq(FileSamples, LAMBDA r : InstanceMatches(r, m))
        IN  \A t \in {FileSamples[i].datetime : i \in 1..Len(FileSamples)} :
                FSum(Values(SelectSeq(LoadRows, LAMBDA r : r.datetime = t)))
                    = FSum(Values(SelectSeq(matching, LAMBDA r : r.datetime = t)))


(***************************************************************************)
(* Properties of the frequency inferencer: notation and symmetry           *)
(***************************************************************************)
\* df has at least two samples and every successive gap is sec seconds
SampledEvery(df, sec) ==
    /\ Len(df) >= 2
    /\ \A i \in 1..(Len(df) - 1) : Gaps(df)[i] = sec * TicksPerSec

\* the cadences written in seconds notation ('<n>s') with their number of
\* seconds n; '1min' is not among them
SecondsNotation == [f \in {"1s", "5s", "30s"} |->
                       IF f = "1s" THEN 1 ELSE IF f = "5s" THEN 5 ELSE 30]

\* C26: for a series sampled every 60 s and a series sampled every 30 s,
\* infer_freq returns a cadence in seconds notation whose number of seconds
\* is at least 60.
C26_SecondsNotationAtLeastSixty ==
    (called = "infer_freq" /\ SampledEvery(df1, 60) /\ SampledEvery(df2, 30)) =>
        /\ freq_out \in DOMAIN SecondsNotation
        /\ SecondsNotation[freq_out] >= 60


\* C30: infer_freq is symmetric in its two arguments, also when one of the
\* series has a single sample and so no successive-sample gap.
C30_InferFreqSymmetric ==
    called = "infer_freq" => freq_out = InferFreq(df2, df1)


(***************************************************************************)
(* Property of the lag table                                               *)
(***************************************************************************)
\* the lags of the table, in the order of its rows
TableLagSeq == [i \in 1..Len(lag_out.all_lags) |-> lag_out.all_lags[i].lag]

\* C27: with n the number of rows having both values, the table returned by
\* lag_correlation holds exactly the lags k with -max_lag <= k <= max_lag and
\* n - |k| >= 100, each once and in ascending order; the result is None
\* exactly when n < 2 * max_lag or n < 100.
C27_LagTableAndNone ==
    called = "lag_correlation" =>
        LET n == PairedRows(corr_in)
        IN  /\ lag_out.kind = "result" =>
                  /\ {TableLagSeq[i] : i \in 1..Len(TableLagSeq)}
                        = {k \in -LagArg..LagArg : n - Abs(k) >= MinOverlap}
                  /\ \A i \in 1..(Len(TableLagSeq) - 1) :
                        TableLagSeq[i] < TableLagSeq[i + 1]
            /\ (lag_out.kind = "None") <=> (n < 2 * LagArg \/ n < MinOverlap)

\* 101 paired rows and max_lag = 2: the table holds the lags -1, 0 and 1, the
\* lags -2 and 2 having an overlap of 99
C27_Witness ==
    /\ called = "lag_correlation"
    /\ max_lag = {2}
    /\ PairedRows(corr_in) = MinOverlap + 1
    /\ lag_out.kind = "result"
    /\ TableLagSeq = <<-1, 0, 1>>

\* 111 paired rows and max_lag = 60: fewer than 2 * max_lag rows, so None
\* although the lags up to 11 have an overlap of 100
C27_WitnessShort ==
    /\ called = "lag_correlation"
    /\ max_lag = {60}
    /\ PairedRows(corr_in) = MinOverlap + DefaultMaxLag + 1
    /\ lag_out.kind = "None"


(***************************************************************************)
(* Property of the two difference sequences of the rate correlation         *)
(***************************************************************************)
\* the rows of the call that have both values, in time order
RateClean == SortValues(DropNa(corr_in))

V1DeltaLabels == DeltaLabels(V1s(RateClean))

V2DeltaLabels == DeltaLabels(V2s(RateClean))

\* C28: inside rate_correlation the two first-difference sequences have the
\* same length, the number of fully defined rows minus one, and the
\* differences at the same position are taken at the same row, so the
\* truncation to the shorter sequence discards nothing and pairs no
\* differences of different instants.
C28_DeltasEqualLengthAligned ==
    (called = "rate_correlation" /\ Len(RateClean) >= MinDiffs) =>
        /\ Len(V1DeltaLabels) = Len(RateClean) - 1
        /\ Len(V2DeltaLabels) = Len(RateClean) - 1
        /\ \A j \in 1..PyMinInt(Len(V1DeltaLabels), Len(V2DeltaLabels)) :
               V1DeltaLabels[j] = V2DeltaLabels[j]


(***************************************************************************)
(* Property of the aligner with an inferred cadence                        *)
(***************************************************************************)
GridStep == FreqTicks(Cadence(df1, df2, freq))

\* the instants of a grid
GridInstants(grid) == {grid[i].datetime : i \in 1..Len(grid)}

\* series 2's bucket of instant t, t being an instant of its grid
RightBucket(t) ==
    RightGrid[CHOOSE j \in 1..Len(RightGrid) : RightGrid[j].datetime = t].value

\* t lies between the first and the last instant of series 2's grid
InRightRange(t) ==
    RightGrid[1].datetime <= t /\ t <= RightGrid[Len(RightGrid)].datetime

\* C29: with an inferred cadence the two grids have coinciding instants; an
\* output row of align_metrics at an instant t inside series 2's grid range
\* carries series 2's bucket of t, a row carries the bucket of another
\* instant only if t lies outside that range, and a left instant whose
\* series-2 bucket of the same instant is empty gives no row, whatever the
\* neighbouring buckets hold.
C29_InferredCadenceSameInstant ==
    (Aligned /\ freq = {}) =>
        /\ \A t \in GridInstants(LeftGrid), u \in GridInstants(RightGrid) :
               (t - u) % GridStep = 0
        /\ \A t \in GridInstants(LeftGrid) :
               InRightRange(t) => t \in GridInstants(RightGrid)
        /\ \A i \in 1..Len(aligned) :
               InRightRange(aligned[i].datetime) =>
                   aligned[i].v2 = RightBucket(aligned[i].datetime)
        /\ \A t \in GridInstants(LeftGrid) :
               (InRightRange(t) /\ IsNaN(RightBucket(t))) =>
                   \A i \in 1..Len(aligned) : aligned[i].datetime # t

\* cadence 5 s: series 1 has its only bucket at the midnight, series 2 has
\* samples 5 s before and 5 s after it and an empty bucket at the midnight;
\* both neighbours lie within the tolerance of 10 s and no row is returned
C29_Witness ==
    /\ Aligned
    /\ freq = {} /\ tol = {}
    /\ GridStep = 5 * TicksPerSec
    /\ GridInstants(LeftGrid) = {Day}
    /\ GridInstants(RightGrid) = {Day - GridStep, Day, Day + GridStep}
    /\ IsNaN(RightBucket(Day))
    /\ NotNa(RightBucket(Day - GridStep))
    /\ NotNa(RightBucket(Day + GridStep))
    /\ CallTolerance >= GridStep
    /\ aligned = <<>>

==============================================================================
